---- MODULE Spec2Model ----
(***************************************************************************)
(* Model of the echo2 request-resolution engine: configs.Route and         *)
(* configs.RouteCondition (getters, MatchesHeaders), Server.handleRoute,   *)
(* Server.parseDelayParam, Server.sleepWithCancellation, the extractors    *)
(* and the shutdown sequence of main.                                      *)
(*                                                                         *)
(* Strings that the code inspects character by character (header names,    *)
(* query keys, the delay parameter) are sequences of one-character         *)
(* strings; strings that the code only copies or compares as a whole       *)
(* (header values, bodies) are TLA+ strings.                               *)
(***************************************************************************)
EXTENDS Integers, Sequences, FiniteSets, TLC

VARIABLES
    shutdownChan,   \* "open" | "closed": the global channel of main.go
    sigChan,        \* number of OS signals buffered in sigChan (capacity 1)
    mainPc,         \* position of main: "wait_signal" | "closing" | "shutdown"
    in,             \* per call: its inputs (entry point, route, request)
    pc,             \* per call: position in handleRoute / sleepWithCancellation
    delay,          \* per call: the local `delay`, nanoseconds
    timer,          \* per call: "none" | "active" | "fired", plus stopped flag
    sel,            \* per call: the case the select statement took
    loc,            \* per call: locals of handleRoute after condition matching
    resp,           \* per call: ctx.Response (statusCode, header, body)
    ret,            \* per call: the value the call returned
    first,          \* per call: which event of its race happened first (history)
    delayErr,       \* per call: the error returned by parseDelayParam
    served          \* per call: index of the route RequestHandler serves (0: none)

vars ==
    <<shutdownChan, sigChan, mainPc, in, pc, delay, timer, sel, loc, resp, ret, first,
      delayErr, served>>

-----------------------------------------------------------------------------
(* Characters.  Alphabet lists the characters in use in ASCII order.       *)

Alphabet ==
    << "+", "-", ".", "0", "1", "2", "3", "4", "5", "6", "7", "8", "9",
       "A", "C", "E", "G", "K", "O", "P", "R", "S", "T", "X",
       "a", "c", "d", "e", "g", "h", "k", "l", "m", "n", "o", "p", "q", "r", "s", "t", "u",
       "x", "y" >>

Ord(c) == CHOOSE i \in 1..Len(Alphabet) : Alphabet[i] = c

UpperChars == << "A", "C", "E", "G", "K", "O", "P", "R", "S", "T", "X" >>
LowerChars == << "a", "c", "e", "g", "k", "o", "p", "r", "s", "t", "x" >>

ToLower(c) ==
    IF \E i \in 1..Len(UpperChars) : UpperChars[i] = c
    THEN LowerChars[CHOOSE i \in 1..Len(UpperChars) : UpperChars[i] = c]
    ELSE c

ToUpper(c) ==
    IF \E i \in 1..Len(LowerChars) : LowerChars[i] = c
    THEN UpperChars[CHOOSE i \in 1..Len(LowerChars) : LowerChars[i] = c]
    ELSE c

\* strings.EqualFold on ASCII strings
EqualFold(s, t) ==
    /\ Len(s) = Len(t)
    /\ \A i \in 1..Len(s) : ToLower(s[i]) = ToLower(t[i])

\* byte-wise string order (used by encoding/json to sort map keys)
RECURSIVE StrLess(_, _)
StrLess(s, t) ==
    IF t = << >> THEN FALSE
    ELSE IF s = << >> THEN TRUE
    ELSE IF Head(s) = Head(t) THEN StrLess(Tail(s), Tail(t))
    ELSE Ord(Head(s)) < Ord(Head(t))

-----------------------------------------------------------------------------
(* Go maps: a map is [isNil, m] with m a function from keys to values.     *)

EmptyFn == [k \in {} |-> ""]
NilMap == [isNil |-> TRUE, m |-> EmptyFn]
MakeMap == [isNil |-> FALSE, m |-> EmptyFn]
MapOf(f) == [isNil |-> FALSE, m |-> f]
Keys(mp) == DOMAIN mp.m
MapSet(mp, k, v) ==
    [isNil |-> FALSE,
     m |-> [x \in (DOMAIN mp.m) \cup {k} |-> IF x = k THEN v ELSE mp.m[x]]]

\* every order in which a range statement may visit the keys of a map
Orders(S) ==
    { o \in [1..Cardinality(S) -> S] : \A i, j \in 1..Cardinality(S) : o[i] = o[j] => i = j }

-----------------------------------------------------------------------------
(* configs: Route and RouteCondition                                       *)

\* a method is the sequence of its characters (matchRoute folds their case)
HttpMethodGet == << "G", "E", "T" >>

GetMethod(r) == IF r.Method = << >> THEN HttpMethodGet ELSE r.Method

GetResponseBody(r) == r.ResponseBody

GetResponseHeaders(r) == IF r.ResponseHeader.isNil THEN MakeMap ELSE r.ResponseHeader

\* GetResponseStatus defaulting every status that is not positive
GetResponseStatus_DefaultsNonPositive(r) == IF r.ResponseStatus <= 0 THEN 200 ELSE r.ResponseStatus

GetResponseStatus(r) == IF r.ResponseStatus = 0 THEN 200 ELSE r.ResponseStatus

GetResponseDump(r) == r.ResponseDump

CondGetResponseBody(c) == c.ResponseBody

CondGetResponseHeaders(c) == IF c.ResponseHeader.isNil THEN MakeMap ELSE c.ResponseHeader

\* CondGetResponseStatus without the default
CondGetResponseStatus_NoDefault(c) == c.ResponseStatus

CondGetResponseStatus(c) == IF c.ResponseStatus = 0 THEN 200 ELSE c.ResponseStatus

\* FoundIn comparing the header name exactly instead of with EqualFold
RECURSIVE FoundIn_ExactName(_, _, _, _, _)
FoundIn_ExactName(expectedKey, expectedValue, requestHeaders, ao, j) ==
    IF j > Len(ao) THEN FALSE
    ELSE IF expectedKey = ao[j] /\ requestHeaders.m[ao[j]] = expectedValue
         THEN TRUE
         ELSE FoundIn_ExactName(expectedKey, expectedValue, requestHeaders, ao, j + 1)

\* FoundIn stopping at the first header with the expected name, whatever
\* its value
RECURSIVE FoundIn_StopsAtName(_, _, _, _, _)
FoundIn_StopsAtName(expectedKey, expectedValue, requestHeaders, ao, j) ==
    IF j > Len(ao) THEN FALSE
    ELSE IF EqualFold(expectedKey, ao[j])
         THEN requestHeaders.m[ao[j]] = expectedValue
         ELSE FoundIn_StopsAtName(expectedKey, expectedValue, requestHeaders, ao, j + 1)

\* The inner loop of MatchesHeaders: visit the request headers in the order
\* ao, from position j, until one has the expected name and value.
RECURSIVE FoundIn(_, _, _, _, _)
FoundIn(expectedKey, expectedValue, requestHeaders, ao, j) ==
    IF j > Len(ao) THEN FALSE
    ELSE IF EqualFold(expectedKey, ao[j]) /\ requestHeaders.m[ao[j]] = expectedValue
         THEN TRUE
         ELSE FoundIn(expectedKey, expectedValue, requestHeaders, ao, j + 1)

\* MatchLoop refusing a condition that requires no header
MatchLoop_NeedsHeader(c, requestHeaders, eo, ao, i) ==
    /\ eo # << >>
    /\ \A n \in i..Len(eo) : FoundIn(eo[n], c.HeaderMatch.m[eo[n]], requestHeaders, ao, 1)

\* The outer loop: visit header_match in the order eo, from position i.
RECURSIVE MatchLoop(_, _, _, _, _)
MatchLoop(c, requestHeaders, eo, ao, i) ==
    IF i > Len(eo) THEN TRUE
    ELSE IF ~FoundIn(eo[i], c.HeaderMatch.m[eo[i]], requestHeaders, ao, 1)
         THEN FALSE
         ELSE MatchLoop(c, requestHeaders, eo, ao, i + 1)

\* RouteCondition.MatchesHeaders, for the visiting orders eo and ao
MatchesHeadersIn(c, requestHeaders, eo, ao) == MatchLoop(c, requestHeaders, eo, ao, 1)

\* The results MatchesHeaders can return: Go visits a map's keys in an
\* unspecified order, so every pair of visiting orders is possible.
MatchesHeaders(c, requestHeaders) ==
    { MatchesHeadersIn(c, requestHeaders, eo, ao) :
        eo \in Orders(Keys(c.HeaderMatch)), ao \in Orders(Keys(requestHeaders)) }

-----------------------------------------------------------------------------
(* time.ParseDuration and strconv.Atoi, as called by parseDelayParam.      *)
(* A time.Duration is a count of nanoseconds that goes up to hours, so it  *)
(* is kept as whole seconds and remaining nanoseconds, [s, ns], the two of *)
(* the same sign and |ns| < Second.                                        *)

Nanosecond == 1
Microsecond == 1000 * Nanosecond
Millisecond == 1000 * Microsecond
Second == 1000 * Millisecond

Dur(sec, nsec) == [s |-> sec, ns |-> nsec]
ZeroDuration == Dur(0, 0)
DurNeg(d) == Dur(0 - d.s, 0 - d.ns)
DurPositive(d) == d.s > 0 \/ d.ns > 0

\* d + e, for d and e not negative
DurAdd(d, e) == Dur(d.s + e.s + ((d.ns + e.ns) \div Second), (d.ns + e.ns) % Second)

\* v * unit, for a count v >= 0 and a unit of time.unitMap
DurTimes(v, unit) ==
    IF unit.ns = 0 THEN Dur(v * unit.s, 0)
    ELSE Dur(v \div (Second \div unit.ns), (v % (Second \div unit.ns)) * unit.ns)

\* uint64(float64(f) * (float64(unit) / scale)), for a fraction f / scale
\* below one: the whole nanoseconds of the product
DurFraction(f, scale, unit) ==
    IF unit.ns = 0
    THEN Dur((f * unit.s) \div scale, ((f * unit.s) % scale) * (Second \div scale))
    ELSE Dur(0, (f * unit.ns) \div scale)

\* time.Duration(ms) * time.Millisecond
TimesMillisecond(ms) ==
    IF ms < 0 THEN DurNeg(DurTimes(0 - ms, Dur(0, Millisecond)))
    ELSE DurTimes(ms, Dur(0, Millisecond))

Digits == << "0", "1", "2", "3", "4", "5", "6", "7", "8", "9" >>
IsDigit(c) == \E i \in 1..10 : Digits[i] = c
DigitVal(c) == (CHOOSE i \in 1..10 : Digits[i] = c) - 1

NoErr == [isErr |-> FALSE, msg |-> << >>]
Err(msg) == [isErr |-> TRUE, msg |-> msg]
Quote(s) == << "\"" >> \o s \o << "\"" >>
ErrInvalidDuration(orig) == Err(<< "time: invalid duration " >> \o Quote(orig))
ErrMissingUnit(orig) == Err(<< "time: missing unit in duration " >> \o Quote(orig))
ErrUnknownUnit(u, orig) ==
    Err(<< "time: unknown unit " >> \o Quote(u) \o << " in duration " >> \o Quote(orig))

\* time.unitMap; "U+00B5" and "U+03BC" stand for the micro and mu signs
UnitKnown(u) ==
    u \in { <<"n","s">>, <<"u","s">>, <<"U+00B5","s">>, <<"U+03BC","s">>, <<"m","s">>,
            <<"s">>, <<"m">>, <<"h">> }
UnitValue(u) ==
    CASE u = <<"n","s">> -> Dur(0, Nanosecond)
      [] u \in { <<"u","s">>, <<"U+00B5","s">>, <<"U+03BC","s">> } -> Dur(0, Microsecond)
      [] u = <<"m","s">> -> Dur(0, Millisecond)
      [] u = <<"s">> -> Dur(1, 0)
      [] u = <<"m">> -> Dur(60, 0)
      [] u = <<"h">> -> Dur(3600, 0)

\* A 64-bit integer is kept as its decimal digits, most significant first
\* and without leading zeros (zero is the empty sequence): the values the
\* program computes with do not fit the integers of the checker.
RECURSIVE Norm(_)
Norm(d) == IF d # << >> /\ Head(d) = 0 THEN Norm(Tail(d)) ELSE d

\* a < b, for normalised a and b
BigLess(a, b) ==
    \/ Len(a) < Len(b)
    \/ /\ Len(a) = Len(b)
       /\ \E i \in 1..Len(a) : a[i] < b[i] /\ \A j \in 1..(i - 1) : a[j] = b[j]

PadTo(b, n) == [i \in 1..n |-> IF i <= n - Len(b) THEN 0 ELSE b[i - (n - Len(b))]]

\* the digits 1..i of a - b - borrow, a and b of one length
RECURSIVE SubDigits(_, _, _, _)
SubDigits(a, b, i, borrow) ==
    IF i = 0 THEN << >>
    ELSE LET t == a[i] - b[i] - borrow
         IN  SubDigits(a, b, i - 1, IF t < 0 THEN 1 ELSE 0)
                 \o << IF t < 0 THEN t + 10 ELSE t >>

\* a - b, for a >= b
BigSub(a, b) == Norm(SubDigits(a, PadTo(b, Len(a)), Len(a), 0))

\* d * 10^k
Shift(d, k) == IF d = << >> THEN << >> ELSE d \o [i \in 1..k |-> 0]

RECURSIVE IntOf(_, _)
IntOf(d, x) == IF d = << >> THEN x ELSE IntOf(Tail(d), x * 10 + Head(d))

TwoTo63 == << 9, 2, 2, 3, 3, 7, 2, 0, 3, 6, 8, 5, 4, 7, 7, 5, 8, 0, 8 >>
TwoTo64 == << 1, 8, 4, 4, 6, 7, 4, 4, 0, 7, 3, 7, 0, 9, 5, 5, 1, 6, 1, 6 >>

\* x mod 2^64, for x < 2^64 * 10^(k+1)
RECURSIVE ModTwoTo64(_, _)
ModTwoTo64(x, k) ==
    IF k < 0 THEN x
    ELSE IF BigLess(x, Shift(TwoTo64, k)) THEN ModTwoTo64(x, k - 1)
    ELSE ModTwoTo64(BigSub(x, Shift(TwoTo64, k)), k)

\* the int64 multiplication time.Duration(ms) * time.Millisecond of
\* line 1796, ms = [neg, mag]: the low 64 bits of the product, read as a
\* two's complement number of nanoseconds
Int64TimesMillisecond(ms) ==
    \* u, the product as a uint64, is computed once
    CHOOSE result \in
      { LET negative == ~BigLess(u, TwoTo63)
            a == IF negative THEN BigSub(TwoTo64, u) ELSE u
            hi == IF Len(a) > 9 THEN SubSeq(a, 1, Len(a) - 9) ELSE << >>
            lo == IF Len(a) > 9 THEN SubSeq(a, Len(a) - 8, Len(a)) ELSE a
            d == Dur(IntOf(hi, 0), IntOf(lo, 0))
        IN  IF negative THEN DurNeg(d) ELSE d
        : u \in
            { LET m == Shift(ms.mag, 6)
                  r == ModTwoTo64(m, IF Len(m) > Len(TwoTo64) THEN Len(m) - Len(TwoTo64)
                                     ELSE 0)
              IN  IF ms.neg /\ r # << >> THEN BigSub(TwoTo64, r) ELSE r } } : TRUE

\* time.leadingInt: consume [0-9]*, giving <<digits, rest>>
RECURSIVE leadingInt(_, _)
leadingInt(s, x) ==
    IF s # << >> /\ IsDigit(Head(s))
    THEN leadingInt(Tail(s), x \o << DigitVal(Head(s)) >>)
    ELSE << x, s >>

\* time.leadingFraction: consume [0-9]*, giving <<value, scale, rest>>
RECURSIVE leadingFraction(_, _, _)
leadingFraction(s, f, scale) ==
    IF s # << >> /\ IsDigit(Head(s))
    THEN leadingFraction(Tail(s), f * 10 + DigitVal(Head(s)), scale * 10)
    ELSE << f, scale, s >>

\* length of the unit: the characters up to the next '.' or digit
RECURSIVE unitLen(_)
unitLen(s) ==
    IF s = << >> \/ Head(s) = "." \/ IsDigit(Head(s)) THEN 0 ELSE 1 + unitLen(Tail(s))

\* the loop `for s != ""` of time.ParseDuration, d the sum so far
RECURSIVE durationLoop(_, _, _)
durationLoop(s, d, orig) ==
    IF s = << >> THEN [err |-> NoErr, d |-> d]
    ELSE IF ~(Head(s) = "." \/ IsDigit(Head(s)))
    THEN [err |-> ErrInvalidDuration(orig), d |-> ZeroDuration]
    ELSE
      \* the integer, the fraction and the length of the unit are scanned once
      CHOOSE result \in
        { LET li == scan[1]
              v == IntOf(li[1], 0)
              s1 == li[2]
              pre == Len(s1) # Len(s)
              hasDot == s1 # << >> /\ Head(s1) = "."
              lf == scan[2]
              f == lf[1]
              scale == lf[2]
              s2 == lf[3]
              post == hasDot /\ Len(s2) # Len(Tail(s1))
              i == scan[3]
              u == SubSeq(s2, 1, i)
              s3 == SubSeq(s2, i + 1, Len(s2))
          IN  IF BigLess(TwoTo63, Norm(li[1]))
              THEN [err |-> ErrInvalidDuration(orig), d |-> ZeroDuration]
              ELSE IF ~pre /\ ~post THEN [err |-> ErrInvalidDuration(orig), d |-> ZeroDuration]
              ELSE IF i = 0 THEN [err |-> ErrMissingUnit(orig), d |-> ZeroDuration]
              ELSE IF ~UnitKnown(u) THEN [err |-> ErrUnknownUnit(u, orig), d |-> ZeroDuration]
              ELSE durationLoop(s3,
                                DurAdd(d, DurAdd(DurTimes(v, UnitValue(u)),
                                                 DurFraction(f, scale, UnitValue(u)))),
                                orig)
          : scan \in
              { LET li == leadingInt(s, << >>)
                    s1 == li[2]
                    lf == IF s1 # << >> /\ Head(s1) = "."
                          THEN leadingFraction(Tail(s1), 0, 1) ELSE << 0, 1, s1 >>
                IN  << li, lf, unitLen(lf[3]) >> } } : TRUE

\* time.ParseDuration: [-+]?([0-9]*(\.[0-9]*)?[a-z]+)+
ParseDuration(orig) ==
    LET signed == orig # << >> /\ Head(orig) \in {"-", "+"}
        neg == signed /\ Head(orig) = "-"
        s == IF signed THEN Tail(orig) ELSE orig
    IN  IF s = << "0" >> THEN [err |-> NoErr, d |-> ZeroDuration]
        ELSE IF s = << >> THEN [err |-> ErrInvalidDuration(orig), d |-> ZeroDuration]
        ELSE LET r == durationLoop(s, ZeroDuration, orig)
             IN  IF r.err.isErr THEN r
                 ELSE [err |-> NoErr, d |-> IF neg THEN DurNeg(r.d) ELSE r.d]

\* strconv.Atoi: [-+]?[0-9]+ within the int64 range, n = [neg, mag]
Atoi(orig) ==
    LET signed == orig # << >> /\ Head(orig) \in {"-", "+"}
        neg == signed /\ Head(orig) = "-"
        s == IF signed THEN Tail(orig) ELSE orig
        li == leadingInt(s, << >>)
        mag == Norm(li[1])
    IN  IF s = << >> \/ li[2] # << >>
        THEN [err |-> Err(<< "strconv.Atoi: parsing " >> \o Quote(orig) \o << ": invalid syntax" >>),
              n |-> [neg |-> FALSE, mag |-> << >>]]
        ELSE IF (neg /\ BigLess(TwoTo63, mag)) \/ (~neg /\ ~BigLess(mag, TwoTo63))
        THEN [err |-> Err(<< "strconv.Atoi: parsing " >> \o Quote(orig)
                              \o << ": value out of range" >>),
              n |-> [neg |-> FALSE, mag |-> << >>]]
        ELSE [err |-> NoErr, n |-> [neg |-> neg, mag |-> mag]]

-----------------------------------------------------------------------------
(* fasthttp: the request and the response of a RequestCtx                  *)

DelayKey == << "d", "e", "l", "a", "y" >>

\* Args.Peek: the value of the first argument with the key, "" if none
RECURSIVE Peek(_, _)
Peek(args, key) ==
    IF args = << >> THEN << >>
    ELSE IF Head(args).key = key THEN Head(args).value
    ELSE Peek(Tail(args), key)

\* VisitAllInto keeping the value a name already has
RECURSIVE VisitAllInto_FirstWins(_, _)
VisitAllInto_FirstWins(pairs, mp) ==
    IF pairs = << >> THEN mp
    ELSE VisitAllInto_FirstWins(Tail(pairs),
                                IF Head(pairs).key \in Keys(mp) THEN mp
                                ELSE MapSet(mp, Head(pairs).key, Head(pairs).value))

\* the callback of VisitAll in extractHeaders / extractQueryParameters:
\* headers[string(key)] = string(value), for each pair in visiting order
RECURSIVE VisitAllInto(_, _)
VisitAllInto(pairs, mp) ==
    IF pairs = << >> THEN mp
    ELSE VisitAllInto(Tail(pairs), MapSet(mp, Head(pairs).key, Head(pairs).value))

extractHeaders(request) == VisitAllInto(request.header, MakeMap)

extractQueryParameters(request) == VisitAllInto(request.query, MakeMap)

\* fasthttp normalizes a response header name: the first letter and every
\* letter after '-' in upper case, the others in lower case
RECURSIVE NormalizeFrom(_, _)
NormalizeFrom(s, up) ==
    IF s = << >> THEN << >>
    ELSE << IF up THEN ToUpper(Head(s)) ELSE ToLower(Head(s)) >>
         \o NormalizeFrom(Tail(s), Head(s) = "-")

NormalizeHeaderKey(s) == NormalizeFrom(s, TRUE)

ContentTypeKey == << "C", "-", "T" >>    \* stands for "Content-Type"

\* The header of a response is kept as Header.Peek shows it.  While no
\* Content-Type is set, or an empty one, fasthttp answers with its default:
\* TestServer_handleRoute reads "text/plain; charset=utf-8" from a response
\* to a route without a Content-Type.
defaultContentType == "text/plain; charset=utf-8"

\* ctx.Response.Header.Set
HeaderSet(header, key, value) ==
    [x \in (DOMAIN header) \cup {NormalizeHeaderKey(key)} |->
        IF x = NormalizeHeaderKey(key)
        THEN (IF x = ContentTypeKey /\ value = "" THEN defaultContentType ELSE value)
        ELSE header[x]]

\* ctx.Response.Header.Peek: "" when the header is not set
HeaderPeek(header, key) ==
    IF NormalizeHeaderKey(key) \in DOMAIN header THEN header[NormalizeHeaderKey(key)] ELSE ""

\* a fresh RequestCtx: no status, no header, no body written
NewResponse ==
    [statusCode |-> 0, header |-> [x \in {ContentTypeKey} |-> defaultContentType],
     body |-> << >>, writes |-> 0]

SetStatusCode(r, code) == [r EXCEPT !.statusCode = code]
SetContentType(r, ct) == [r EXCEPT !.header = HeaderSet(r.header, ContentTypeKey, ct)]
WriteString(r, s) == [r EXCEPT !.body = r.body \o s, !.writes = r.writes + 1]

-----------------------------------------------------------------------------
(* Server.parseDelayParam                                                  *)

\* parseDelayParam returning parseErr, the error of strconv.Atoi, at line 1800
parseDelayParam_ReturnsAtoiError(request) ==
    LET delayStr == Peek(request.query, DelayKey)
        pd == ParseDuration(delayStr)
        ai == Atoi(delayStr)
    IN  IF delayStr = << >> THEN [delay |-> ZeroDuration, err |-> NoErr]
        ELSE IF pd.err.isErr
             THEN IF ~ai.err.isErr
                  THEN [delay |-> Int64TimesMillisecond(ai.n), err |-> NoErr]
                  ELSE [delay |-> ZeroDuration, err |-> ai.err]
             ELSE [delay |-> pd.d, err |-> NoErr]

parseDelayParam(request) ==
    \* delayStr is read once
    CHOOSE result \in
      { LET pd == ParseDuration(delayStr)
            ai == Atoi(delayStr)
        IN  IF delayStr = << >> THEN [delay |-> ZeroDuration, err |-> NoErr]
            ELSE IF pd.err.isErr
                 THEN IF ~ai.err.isErr
                      THEN [delay |-> Int64TimesMillisecond(ai.n), err |-> NoErr]
                      ELSE [delay |-> ZeroDuration, err |-> pd.err]
                 ELSE [delay |-> pd.d, err |-> NoErr]
        : delayStr \in { Peek(request.query, DelayKey) } } : TRUE

-----------------------------------------------------------------------------
(* encoding/json: json.MarshalIndent(dump, "", "  ") of a RequestDump.     *)
(* A document is the sequence of its text fragments.                       *)

\* the keys of a map in the order encoding/json writes them (sorted)
SortedKeys(S) ==
    CHOOSE o \in Orders(S) : \A i, j \in 1..Cardinality(S) : i < j => StrLess(o[i], o[j])

\* the entries of a JSON object at nesting depth 2, from position i
RECURSIVE JsonEntries(_, _, _)
JsonEntries(f, o, i) ==
    IF i > Len(o) THEN << >>
    ELSE << "    " >> \o Quote(o[i]) \o << ": " >> \o Quote(f[o[i]])
         \o (IF i < Len(o) THEN << ",\n" >> ELSE << "\n" >>)
         \o JsonEntries(f, o, i + 1)

\* a map[string]string as a JSON object nested in the top-level object;
\* f maps each key to the fragments of its value
JsonObject(f) ==
    IF DOMAIN f = {} THEN << "{}" >>
    ELSE << "{\n" >> \o JsonEntries(f, SortedKeys(DOMAIN f), 1) \o << "  }" >>

\* json.MarshalIndent of RequestDump{Headers, QueryParameters}; marshalling
\* two map[string]string never fails, so err is always nil
MarshalIndent(dump) ==
    [err |-> NoErr,
     json |-> << "{\n", "  \"headers\": " >>
              \o JsonObject([k \in Keys(dump.Headers) |-> << dump.Headers.m[k] >>])
              \o << ",\n", "  \"query_parameters\": " >>
              \o JsonObject(dump.QueryParameters.m)
              \o << "\n}" >>]

-----------------------------------------------------------------------------
(* Server.handleRoute, lines 1845-1908, as functions of the locals         *)

ZeroLocals ==
    [responseBody |-> << >>, responseHeaders |-> NilMap, responseStatus |-> 0,
     conditionMatched |-> FALSE, matched |-> 0]

\* ConditionLoop without the break: the last matching condition is used
RECURSIVE ConditionLoop_LastMatch(_, _, _)
ConditionLoop_LastMatch(conditions, requestHeaders, i) ==
    IF i > Len(conditions) THEN {0}
    ELSE LET rs == MatchesHeaders(conditions[i], requestHeaders)
             rest == ConditionLoop_LastMatch(conditions, requestHeaders, i + 1)
         IN  (IF TRUE \in rs THEN { IF x = 0 THEN i ELSE x : x \in rest } ELSE {})
             \cup (IF FALSE \in rs THEN rest ELSE {})

\* The loop over route.Conditions from position i: the indexes at which it
\* can break (0: it runs to the end without a match).
RECURSIVE ConditionLoop(_, _, _)
ConditionLoop(conditions, requestHeaders, i) ==
    IF i > Len(conditions) THEN {0}
    ELSE LET rs == MatchesHeaders(conditions[i], requestHeaders)
         IN  (IF TRUE \in rs THEN {i} ELSE {})
             \cup (IF FALSE \in rs
                   THEN ConditionLoop(conditions, requestHeaders, i + 1)
                   ELSE {})

\* ChosenResponse without the block `if !conditionMatched`
ChosenResponse_NoDefault(route, idx) ==
    IF idx > 0
    THEN [responseBody |-> CondGetResponseBody(route.Conditions[idx]),
          responseHeaders |-> CondGetResponseHeaders(route.Conditions[idx]),
          responseStatus |-> CondGetResponseStatus(route.Conditions[idx]),
          conditionMatched |-> TRUE, matched |-> idx]
    ELSE ZeroLocals

\* ChosenResponse falling back to the route for each field the condition leaves unset
ChosenResponse_Fallback(route, idx) ==
    IF idx > 0
    THEN [responseBody |-> IF route.Conditions[idx].ResponseBody = << >>
                           THEN GetResponseBody(route)
                           ELSE CondGetResponseBody(route.Conditions[idx]),
          responseHeaders |-> IF Keys(route.Conditions[idx].ResponseHeader) = {}
                              THEN GetResponseHeaders(route)
                              ELSE CondGetResponseHeaders(route.Conditions[idx]),
          responseStatus |-> IF route.Conditions[idx].ResponseStatus = 0
                             THEN GetResponseStatus(route)
                             ELSE CondGetResponseStatus(route.Conditions[idx]),
          conditionMatched |-> TRUE, matched |-> idx]
    ELSE [responseBody |-> GetResponseBody(route),
          responseHeaders |-> GetResponseHeaders(route),
          responseStatus |-> GetResponseStatus(route),
          conditionMatched |-> FALSE, matched |-> 0]

\* the locals after the loop broke at condition idx, or found none (idx = 0)
ChosenResponse(route, idx) ==
    IF idx > 0
    THEN [responseBody |-> CondGetResponseBody(route.Conditions[idx]),
          responseHeaders |-> CondGetResponseHeaders(route.Conditions[idx]),
          responseStatus |-> CondGetResponseStatus(route.Conditions[idx]),
          conditionMatched |-> TRUE, matched |-> idx]
    ELSE [responseBody |-> GetResponseBody(route),
          responseHeaders |-> GetResponseHeaders(route),
          responseStatus |-> GetResponseStatus(route),
          conditionMatched |-> FALSE, matched |-> 0]

\* `for key, value := range responseHeaders { ctx.Response.Header.Set(key, value) }`
\* visiting the keys in the order o, from position i
RECURSIVE SetHeaders(_, _, _, _)
SetHeaders(r, responseHeaders, o, i) ==
    IF i > Len(o) THEN r
    ELSE SetHeaders([r EXCEPT !.header = HeaderSet(r.header, o[i], responseHeaders.m[o[i]])],
                    responseHeaders, o, i + 1)

TextPlain == "text/plain"
ApplicationJson == "application/json"

\* DefaultContentType without the test: text/plain is set in every case
DefaultContentType_Always(r) == SetContentType(r, TextPlain)

\* "Set content type if not already set"
DefaultContentType(r) ==
    IF HeaderPeek(r.header, ContentTypeKey) = "" THEN SetContentType(r, TextPlain) ELSE r

\* lines 1872-1883: status, headers, default content type
ComposeResponse(r, l, o) ==
    DefaultContentType(SetHeaders(SetStatusCode(r, l.responseStatus), l.responseHeaders, o, 1))

\* WriteBody without line 1903: the dump is written under the Content-Type
\* that the composition left
WriteBody_KeepsContentType(r, l, route, request) ==
    LET dump == [Headers |-> extractHeaders(request),
                 QueryParameters |-> extractQueryParameters(request)]
        mi == MarshalIndent(dump)
    IN  IF GetResponseDump(route) /\ ~mi.err.isErr
        THEN WriteString(r, mi.json)
        ELSE WriteString(r, l.responseBody)

\* WriteBody answering every dump with the status 200
WriteBody_DumpStatusOK(r, l, route, request) ==
    LET dump == [Headers |-> extractHeaders(request),
                 QueryParameters |-> extractQueryParameters(request)]
        mi == MarshalIndent(dump)
    IN  IF GetResponseDump(route) /\ ~mi.err.isErr
        THEN WriteString(SetStatusCode([r EXCEPT !.header =
                                          HeaderSet(r.header, ContentTypeKey, ApplicationJson)],
                                       200),
                         mi.json)
        ELSE WriteString(r, l.responseBody)

\* lines 1885-1908: the dump, then the body
WriteBody(r, l, route, request) ==
    LET dump == [Headers |-> extractHeaders(request),
                 QueryParameters |-> extractQueryParameters(request)]
        mi == MarshalIndent(dump)
    IN  IF GetResponseDump(route) /\ ~mi.err.isErr
        THEN WriteString([r EXCEPT !.header = HeaderSet(r.header, ContentTypeKey, ApplicationJson)],
                         mi.json)
        ELSE WriteString(r, l.responseBody)

StatusBadRequest == 400

\* lines 1833-1835: the response to an invalid delay parameter
BadRequestResponse(r, err) ==
    WriteString(SetContentType(SetStatusCode(r, StatusBadRequest), TextPlain),
                << "Invalid delay parameter: " >> \o err.msg)

-----------------------------------------------------------------------------
(* The calls.  Each call id runs one call of its entry point.              *)

Calls == DOMAIN in

IsRequest(r) == in[r].entry = "handleRoute"

\* the calls that run handleRoute: direct ones and those of RequestHandler
RunsHandleRoute(r) == in[r].entry \in {"handleRoute", "RequestHandler"}

\* the route parameter of handleRoute
RouteOf(r) ==
    IF in[r].entry = "RequestHandler" THEN in[r].arg.Routes[served[r]] ELSE in[r].route

\* AfterSleep with handleRoute ignoring the result of sleepWithCancellation
AfterSleep_IgnoresResult(r, completed) ==
    IF RunsHandleRoute(r) THEN "match" ELSE "returned"

\* where the caller of sleepWithCancellation continues: handleRoute goes on
\* to matching or returns without a response; a direct caller has the result
AfterSleep(r, completed) ==
    IF RunsHandleRoute(r) THEN (IF completed THEN "match" ELSE "aborted") ELSE "returned"

\* ParseDelay without the return at line 1836: the 400 is written and
\* handleRoute goes on
ParseDelay_NoReturn(r) ==
    /\ pc[r] = "start"
    /\ delayErr' = [delayErr EXCEPT ![r] = parseDelayParam(in[r].request).err]
    /\ LET p == parseDelayParam(in[r].request)
       IN  IF p.err.isErr
           THEN /\ resp' = [resp EXCEPT ![r] = BadRequestResponse(resp[r], p.err)]
                /\ pc' = [pc EXCEPT ![r] = "match"]
                /\ UNCHANGED delay
           ELSE /\ delay' = [delay EXCEPT ![r] = p.delay]
                /\ pc' = [pc EXCEPT ![r] = IF DurPositive(p.delay) THEN "sleep" ELSE "match"]
                /\ UNCHANGED resp
    /\ UNCHANGED <<shutdownChan, sigChan, mainPc, in, timer, sel, loc, ret, first, served>>

\* ParseDelay answering 400 to a negative delay as to an invalid one
ParseDelay_RejectsNegative(r) ==
    /\ pc[r] = "start"
    /\ delayErr' = [delayErr EXCEPT ![r] = parseDelayParam(in[r].request).err]
    /\ LET p == parseDelayParam(in[r].request)
       IN  IF p.err.isErr \/ p.delay.s < 0 \/ p.delay.ns < 0
           THEN /\ resp' = [resp EXCEPT ![r] = BadRequestResponse(resp[r], p.err)]
                /\ pc' = [pc EXCEPT ![r] = "bad_request"]
                /\ UNCHANGED delay
           ELSE /\ delay' = [delay EXCEPT ![r] = p.delay]
                /\ pc' = [pc EXCEPT ![r] = IF DurPositive(p.delay) THEN "sleep" ELSE "match"]
                /\ UNCHANGED resp
    /\ UNCHANGED <<shutdownChan, sigChan, mainPc, in, timer, sel, loc, ret, first, served>>

\* handleRoute, lines 1831-1843: parse the delay parameter
ParseDelay(r) ==
    /\ pc[r] = "start"
    /\ \E p \in { parseDelayParam(in[r].request) } :
          /\ delayErr' = [delayErr EXCEPT ![r] = p.err]
          /\ IF p.err.isErr
             THEN /\ resp' = [resp EXCEPT ![r] = BadRequestResponse(resp[r], p.err)]
                  /\ pc' = [pc EXCEPT ![r] = "bad_request"]
                  /\ UNCHANGED delay
             ELSE /\ delay' = [delay EXCEPT ![r] = p.delay]
                  /\ pc' = [pc EXCEPT ![r] = IF DurPositive(p.delay) THEN "sleep" ELSE "match"]
                  /\ UNCHANGED resp
    /\ UNCHANGED <<shutdownChan, sigChan, mainPc, in, timer, sel, loc, ret, first, served>>

\* history: the race of a timer created after the close is already lost
FirstAtStart == IF shutdownChan = "closed" THEN "shutdown" ELSE "none"

\* history: the event e happens in the race of a call whose first event was f
FirstAfter(f, e) == IF f = "none" THEN e ELSE f

\* SleepEnter without the early return for delay <= 0
SleepEnter_NoEarlyReturn(r) ==
    /\ pc[r] = "sleep"
    /\ timer' = [timer EXCEPT ![r] = "active"]
    /\ first' = [first EXCEPT ![r] = FirstAtStart]
    /\ pc' = [pc EXCEPT ![r] = "select"]
    /\ UNCHANGED <<shutdownChan, sigChan, mainPc, in, delay, sel, loc, resp, ret, delayErr,
                   served>>

\* SleepEnter starting the timer and returning without waiting for it
SleepEnter_NoWait(r) ==
    /\ pc[r] = "sleep"
    /\ IF ~DurPositive(delay[r])
       THEN UNCHANGED <<timer, first>>
       ELSE /\ timer' = [timer EXCEPT ![r] = "active"]
            /\ first' = [first EXCEPT ![r] = FirstAtStart]
    /\ ret' = [ret EXCEPT ![r] = "completed"]
    /\ pc' = [pc EXCEPT ![r] = AfterSleep(r, TRUE)]
    /\ UNCHANGED <<shutdownChan, sigChan, mainPc, in, delay, sel, loc, resp, delayErr, served>>

\* sleepWithCancellation, lines 1808-1814: the early return, or the timer
SleepEnter(r) ==
    /\ pc[r] = "sleep"
    /\ IF ~DurPositive(delay[r])
       THEN /\ ret' = [ret EXCEPT ![r] = "completed"]
            /\ pc' = [pc EXCEPT ![r] = AfterSleep(r, TRUE)]
            /\ UNCHANGED <<timer, first>>
       ELSE /\ timer' = [timer EXCEPT ![r] = "active"]
            /\ first' = [first EXCEPT ![r] = FirstAtStart]
            /\ pc' = [pc EXCEPT ![r] = "select"]
            /\ UNCHANGED ret
    /\ UNCHANGED <<shutdownChan, sigChan, mainPc, in, delay, sel, loc, resp, delayErr, served>>

\* ReadyCases for a shutdown signal that is sent once instead of a channel
\* that is closed: a goroutine reaching the select after it finds nothing
ReadyCases_TimerOnly(r) ==
    IF timer[r] = "fired" THEN {"timer"} ELSE {}

\* the cases of the select statement that can proceed
ReadyCases(r) ==
    (IF timer[r] = "fired" THEN {"timer"} ELSE {})
    \cup (IF shutdownChan = "closed" THEN {"shutdown"} ELSE {})

\* SelectPoll for sleepers that share one lock: a call reaches the select
\* only while no other call is blocked in it
SelectPoll_OneSleeper(r) ==
    /\ pc[r] = "select"
    /\ \A q \in Calls : pc[q] # "parked"
    /\ IF ReadyCases(r) = {}
       THEN /\ pc' = [pc EXCEPT ![r] = "parked"]
            /\ UNCHANGED sel
       ELSE /\ \E c \in ReadyCases(r) : sel' = [sel EXCEPT ![r] = c]
            /\ pc' = [pc EXCEPT ![r] = "selected"]
    /\ UNCHANGED <<shutdownChan, sigChan, mainPc, in, delay, timer, loc, resp, ret, first,
                   delayErr, served>>

\* the select statement is reached: one ready case is taken ("selected"),
\* or the goroutine blocks on both channels ("parked") until a send on
\* timer.C or the close of shutdownChan wakes it ("woken")
SelectPoll(r) ==
    /\ pc[r] = "select"
    /\ IF ReadyCases(r) = {}
       THEN /\ pc' = [pc EXCEPT ![r] = "parked"]
            /\ UNCHANGED sel
       ELSE /\ \E c \in ReadyCases(r) : sel' = [sel EXCEPT ![r] = c]
            /\ pc' = [pc EXCEPT ![r] = "selected"]
    /\ UNCHANGED <<shutdownChan, sigChan, mainPc, in, delay, timer, loc, resp, ret, first,
                   delayErr, served>>

\* TimerFire with a lost wakeup: the value is sent on timer.C, but a
\* goroutine already blocked in the select is not made runnable
TimerFire_NoWakeup(r) ==
    /\ timer[r] = "active"
    /\ timer' = [timer EXCEPT ![r] = "fired"]
    /\ first' = [first EXCEPT ![r] = FirstAfter(first[r], "timer")]
    /\ UNCHANGED <<sel, pc>>
    /\ UNCHANGED <<shutdownChan, sigChan, mainPc, in, delay, loc, resp, ret, delayErr, served>>

\* the runtime fires the timer: a value is sent on timer.C, which a
\* goroutine blocked in the select receives at once
TimerFire(r) ==
    /\ timer[r] = "active"
    /\ timer' = [timer EXCEPT ![r] = "fired"]
    /\ first' = [first EXCEPT ![r] = FirstAfter(first[r], "timer")]
    /\ IF pc[r] = "parked"
       THEN /\ sel' = [sel EXCEPT ![r] = "timer"]
            /\ pc' = [pc EXCEPT ![r] = "woken"]
       ELSE UNCHANGED <<sel, pc>>
    /\ UNCHANGED <<shutdownChan, sigChan, mainPc, in, delay, loc, resp, ret, delayErr, served>>

\* TimerStop without the deferred call: the timer is left as it is
TimerStop_Missing(t) == t

\* timer.Stop, deferred at line 1814
TimerStop(t) == IF t = "active" THEN "stopped" ELSE t

\* the body of the case taken, the deferred timer.Stop and the return;
\* handleRoute returns at line 1841 when the result is false
SleepReturn(r) ==
    /\ pc[r] \in {"selected", "woken"}
    /\ timer' = [timer EXCEPT ![r] = TimerStop(timer[r])]
    /\ ret' = [ret EXCEPT ![r] = IF sel[r] = "timer" THEN "completed" ELSE "cancelled"]
    /\ pc' = [pc EXCEPT ![r] = AfterSleep(r, sel[r] = "timer")]
    /\ UNCHANGED <<shutdownChan, sigChan, mainPc, in, delay, sel, loc, resp, first, delayErr,
                   served>>

\* handleRoute, lines 1845-1870: extract the headers, find the condition
Match(r) ==
    /\ pc[r] = "match"
    /\ \E idx \in ConditionLoop(RouteOf(r).Conditions, extractHeaders(in[r].request), 1) :
          loc' = [loc EXCEPT ![r] = ChosenResponse(RouteOf(r), idx)]
    /\ pc' = [pc EXCEPT ![r] = "compose"]
    /\ UNCHANGED <<shutdownChan, sigChan, mainPc, in, delay, timer, sel, resp, ret, first,
                   delayErr, served>>

\* Compose on a response object that the calls share: the status and the
\* headers are set on the response some call has left
Compose_SharedResponse(r) ==
    /\ pc[r] = "compose"
    /\ \E q \in Calls, o \in Orders(Keys(loc[r].responseHeaders)) :
          resp' = [resp EXCEPT ![r] = ComposeResponse(resp[q], loc[r], o)]
    /\ pc' = [pc EXCEPT ![r] = "dump"]
    /\ UNCHANGED <<shutdownChan, sigChan, mainPc, in, delay, timer, sel, loc, ret, first,
                   delayErr, served>>

\* handleRoute, lines 1872-1883
Compose(r) ==
    /\ pc[r] = "compose"
    /\ \E o \in Orders(Keys(loc[r].responseHeaders)) :
          resp' = [resp EXCEPT ![r] = ComposeResponse(resp[r], loc[r], o)]
    /\ pc' = [pc EXCEPT ![r] = "dump"]
    /\ UNCHANGED <<shutdownChan, sigChan, mainPc, in, delay, timer, sel, loc, ret, first,
                   delayErr, served>>

\* Emit giving up, without a body, when the server is shutting down
Emit_AbortsOnShutdown(r) ==
    /\ pc[r] = "dump"
    /\ IF shutdownChan = "closed"
       THEN /\ pc' = [pc EXCEPT ![r] = "aborted"]
            /\ UNCHANGED resp
       ELSE /\ resp' = [resp EXCEPT ![r] =
                          WriteBody(resp[r], loc[r], RouteOf(r), in[r].request)]
            /\ pc' = [pc EXCEPT ![r] = "emit"]
    /\ UNCHANGED <<shutdownChan, sigChan, mainPc, in, delay, timer, sel, loc, ret, first,
                   delayErr, served>>

\* handleRoute, lines 1885-1915
Emit(r) ==
    /\ pc[r] = "dump"
    /\ resp' = [resp EXCEPT ![r] = WriteBody(resp[r], loc[r], RouteOf(r), in[r].request)]
    /\ pc' = [pc EXCEPT ![r] = "emit"]
    /\ UNCHANGED <<shutdownChan, sigChan, mainPc, in, delay, timer, sel, loc, ret, first,
                   delayErr, served>>

-----------------------------------------------------------------------------
(* Server.RequestHandler and Server.matchRoute, lines 2058-2089            *)

\* matchRoute without the method check
matchRoute_IgnoresMethod(route, path, method) == route.Path = path

matchRoute(route, path, method) ==
    IF ~EqualFold(GetMethod(route), method) THEN FALSE ELSE route.Path = path

\* the loop of RequestHandler going on after a match: the last matching
\* route is served
RECURSIVE RouteLoop_LastMatch(_, _, _, _)
RouteLoop_LastMatch(routes, path, method, i) ==
    IF i > Len(routes) THEN 0
    ELSE LET later == RouteLoop_LastMatch(routes, path, method, i + 1)
         IN  IF later # 0 THEN later
             ELSE IF matchRoute(routes[i], path, method) THEN i ELSE 0

\* the loop of RequestHandler from route i: the index of the route handed to
\* handleRoute, or 0 when the loop ends without one
RECURSIVE RouteLoop(_, _, _, _)
RouteLoop(routes, path, method, i) ==
    IF i > Len(routes) THEN 0
    ELSE IF matchRoute(routes[i], path, method) THEN i
         ELSE RouteLoop(routes, path, method, i + 1)

StatusNotFound == 404

\* lines 2074-2077: the response when no route matched
NotFoundResponse(r) ==
    WriteString(SetContentType(SetStatusCode(r, StatusNotFound), TextPlain),
                << "404 Not Found" >>)

\* RequestHandler up to the call of handleRoute or to the 404
RequestHandler(r) ==
    /\ pc[r] = "handler"
    /\ LET i == RouteLoop(in[r].arg.Routes, in[r].request.path, in[r].request.method, 1)
       IN  IF i # 0
           THEN /\ served' = [served EXCEPT ![r] = i]
                /\ pc' = [pc EXCEPT ![r] = "start"]
                /\ UNCHANGED resp
           ELSE /\ resp' = [resp EXCEPT ![r] = NotFoundResponse(resp[r])]
                /\ pc' = [pc EXCEPT ![r] = "not_found"]
                /\ UNCHANGED served
    /\ UNCHANGED <<shutdownChan, sigChan, mainPc, in, delay, timer, sel, loc, ret, first,
                   delayErr>>

-----------------------------------------------------------------------------
(* main, lines 1672-1680                                                   *)

SigChanCap == 1

\* the OS delivers SIGINT or SIGTERM: signal.Notify sends without blocking,
\* so the signal is dropped when the buffer is full
OSSignal ==
    /\ sigChan' = IF sigChan < SigChanCap THEN sigChan + 1 ELSE sigChan
    /\ UNCHANGED <<shutdownChan, mainPc, in, pc, delay, timer, sel, loc, resp, ret, first,
                   delayErr, served>>

\* <-sigChan
MainReceive ==
    /\ mainPc = "wait_signal"
    /\ sigChan > 0
    /\ sigChan' = sigChan - 1
    /\ mainPc' = "closing"
    /\ UNCHANGED <<shutdownChan, in, pc, delay, timer, sel, loc, resp, ret, first, delayErr,
                   served>>

\* Parked for a signal that one receiver consumes (a send, not a close)
Parked_OneReceiver ==
    { r \in Calls : pc[r] = "parked" /\ \A q \in Calls : pc[q] = "parked" => r <= q }

\* the goroutines a close of shutdownChan wakes: those blocked in the select
Parked == { r \in Calls : pc[r] = "parked" }

\* MainClose in a loop over the signals: main goes back to <-sigChan
MainClose_OnEverySignal ==
    /\ mainPc = "closing"
    /\ shutdownChan' = "closed"
    /\ sel' = [r \in Calls |-> IF r \in Parked THEN "shutdown" ELSE sel[r]]
    /\ pc' = [r \in Calls |-> IF r \in Parked THEN "woken" ELSE pc[r]]
    /\ first' = [r \in Calls |->
                    IF timer[r] = "active" THEN FirstAfter(first[r], "shutdown") ELSE first[r]]
    /\ mainPc' = "wait_signal"
    /\ UNCHANGED <<sigChan, in, delay, timer, loc, resp, ret, delayErr, served>>

\* close(shutdownChan): every goroutine blocked in the select receives
MainClose ==
    /\ mainPc = "closing"
    /\ shutdownChan' = "closed"
    /\ sel' = [r \in Calls |-> IF r \in Parked THEN "shutdown" ELSE sel[r]]
    /\ pc' = [r \in Calls |-> IF r \in Parked THEN "woken" ELSE pc[r]]
    /\ first' = [r \in Calls |->
                    IF timer[r] = "active" THEN FirstAfter(first[r], "shutdown") ELSE first[r]]
    /\ mainPc' = "shutdown"
    /\ UNCHANGED <<sigChan, in, delay, timer, loc, resp, ret, delayErr, served>>

-----------------------------------------------------------------------------
(* Configurations and requests                                             *)

Pair(k, v) == [key |-> k, value |-> v]

\* header names: X-K stands for X-API-Key, A for Authorization, X-C for X-Custom
NameXK == << "X", "-", "K" >>
NameXk == << "x", "-", "k" >>
NameA == << "A" >>
NameXC == << "X", "-", "C" >>
Namexc == << "x", "-", "c" >>
NameXR == << "X", "-", "R" >>

Condition(hm, body, hdr, status) ==
    [HeaderMatch |-> hm, ResponseBody |-> body, ResponseHeader |-> hdr, ResponseStatus |-> status]

Route(body, hdr, status, dump, conds) ==
    [Path |-> "/api/secure", Method |-> << >>, ResponseBody |-> body, ResponseHeader |-> hdr,
     ResponseStatus |-> status, ResponseDump |-> dump, Conditions |-> conds]

InitCall(entry, route, request, arg) ==
    [entry |-> entry, route |-> route, request |-> request, arg |-> arg]

NoRequest == [header |-> << >>, query |-> << >>]

\* where a call of each entry point starts
InitialPc(entry) ==
    CASE entry = "handleRoute" -> "start"
      [] entry = "sleepWithCancellation" -> "sleep"
      [] entry = "MatchesHeaders" -> "call"
      [] entry = "parseDelayParam" -> "call"
      [] entry = "LoadConfig" -> "call"
      [] entry = "extractHeaders" -> "call"
      [] entry = "extractQueryParameters" -> "call"
      [] entry = "RequestHandler" -> "handler"

\* the state of main and of every call before its first step
InitState ==
    /\ shutdownChan = "open"
    /\ sigChan = 0
    /\ mainPc = "wait_signal"
    /\ pc = [r \in Calls |-> InitialPc(in[r].entry)]
    /\ delay = [r \in Calls |-> IF in[r].entry = "sleepWithCancellation" THEN in[r].arg
                                  ELSE ZeroDuration]
    /\ timer = [r \in Calls |-> "none"]
    /\ sel = [r \in Calls |-> "none"]
    /\ loc = [r \in Calls |-> ZeroLocals]
    /\ resp = [r \in Calls |-> NewResponse]
    /\ ret = [r \in Calls |-> "none"]
    /\ first = [r \in Calls |-> "none"]
    /\ delayErr = [r \in Calls |-> NoErr]
    /\ served = [r \in Calls |-> 0]

\* the routes of the README's examples: a guarded route and a dumping one
SecureRoute ==
    Route(<< "Unauthorized" >>, NilMap, 401, FALSE,
          << Condition(MapOf(NameA :> "Bearer T"), << "{\"data\":\"ok\"}" >>, NilMap, 200) >>)

DumpRoute == Route(<< "Hello, World!" >>, NilMap, 0, TRUE, << >>)

DelayQuery(s) == << Pair(DelayKey, s) >>

Bearer == << Pair(NameA, "Bearer T") >>

\* the requests and direct calls of the concurrent specification
ServedCalls ==
    << InitCall("handleRoute", SecureRoute, [header |-> Bearer, query |-> << >>], 0),
       InitCall("handleRoute", SecureRoute,
                [header |-> Bearer, query |-> DelayQuery(<< "5", "m", "s" >>)], 0),
       InitCall("handleRoute", SecureRoute, [header |-> Bearer, query |-> DelayQuery(<< "x" >>)], 0),
       InitCall("handleRoute", SecureRoute,
                [header |-> << >>, query |-> DelayQuery(<< "2", "5", "0" >>)], 0),
       InitCall("handleRoute", DumpRoute,
                [header |-> << >>, query |-> DelayQuery(<< "-", "5", "m", "s" >>)], 0),
       InitCall("handleRoute", DumpRoute,
                [header |-> Bearer, query |-> DelayQuery(<< "5", "x" >>)], 0),
       InitCall("sleepWithCancellation", DumpRoute, NoRequest, TimesMillisecond(50)),
       InitCall("sleepWithCancellation", DumpRoute, NoRequest, ZeroDuration),
       InitCall("sleepWithCancellation", DumpRoute, NoRequest, TimesMillisecond(0 - 10)) >>

NReq == 2

\* Any NReq calls run concurrently with main.  The calls are interchangeable,
\* so they are numbered in the order of their inputs in ServedCalls.
Init ==
    /\ \E ix \in [1..NReq -> 1..Len(ServedCalls)] :
          /\ \A i, j \in 1..NReq : i < j => ix[i] <= ix[j]
          /\ in = [r \in 1..NReq |-> ServedCalls[ix[r]]]
    /\ InitState

Next ==
    \/ \E r \in Calls : ParseDelay(r)
    \/ \E r \in Calls : SleepEnter(r)
    \/ \E r \in Calls : SelectPoll(r)
    \/ \E r \in Calls : TimerFire(r)
    \/ \E r \in Calls : SleepReturn(r)
    \/ \E r \in Calls : Match(r)
    \/ \E r \in Calls : Compose(r)
    \/ \E r \in Calls : Emit(r)
    \/ OSSignal
    \/ MainReceive
    \/ MainClose

Spec == Init /\ [][Next]_vars

\* Two requests served concurrently with main, under the scheduling the
\* Go runtime gives: the goroutine of a request that can take its next
\* step takes it, and a timer that was started fires.  Nothing makes the
\* operating system send a signal, and nothing is assumed of main.
InitFair ==
    /\ \E i, j \in 1..6 :
          /\ i <= j
          /\ ServedCalls[i].entry = "handleRoute" /\ ServedCalls[j].entry = "handleRoute"
          /\ in = [r \in 1..2 |-> IF r = 1 THEN ServedCalls[i] ELSE ServedCalls[j]]
    /\ InitState

SpecFair ==
    /\ InitFair
    /\ [][Next]_vars
    /\ \A r \in 1..2 :
          /\ WF_vars(ParseDelay(r) \/ SleepEnter(r) \/ SelectPoll(r) \/ SleepReturn(r)
                        \/ Match(r) \/ Compose(r) \/ Emit(r))
          /\ WF_vars(TimerFire(r))

-----------------------------------------------------------------------------
(* The resolution of one request without a positive delay, over every      *)
(* route built from the parts below with at most MaxConds conditions.      *)

MaxConds == 2

HeaderMatches ==
    { NilMap, MakeMap, MapOf(NameXK :> "secret"),
      MapOf(NameXK :> "secret" @@ NameA :> "Bearer T") }

RouteConditions ==
    { Condition(hm, << >>, NilMap, 0) : hm \in HeaderMatches }
    \cup { Condition(hm, << "cond body" >>, MapOf(Namexc :> "cond"), 201) : hm \in HeaderMatches }
    \cup { Condition(MapOf(NameA :> "Bearer T"), << "negative" >>, NilMap, 0 - 1) }

ConditionLists == UNION { [1..n -> RouteConditions] : n \in 0..MaxConds }

Routes ==
    { Route(<< >>, NilMap, 0, dump, conds) : dump \in BOOLEAN, conds \in ConditionLists }
    \cup { Route(<< "Unauthorized" >>, MapOf(NameXR :> "route"), 401, dump, conds) :
             dump \in BOOLEAN, conds \in ConditionLists }
    \cup { Route(<< "Hello" >>, MapOf(NameXC :> "route" @@ ContentTypeKey :> "text/html"), 0 - 1,
                 dump, conds) :
             dump \in BOOLEAN, conds \in ConditionLists }

RequestHeaders ==
    { << >>,
      << Pair(NameXk, "secret") >>,
      << Pair(NameXK, "Secret") >>,
      << Pair(NameA, "Bearer T") >>,
      << Pair(NameXK, "secret"), Pair(NameA, "Bearer T") >> }

RequestQueries ==
    { << >>, DelayQuery(<< "x" >>), DelayQuery(<< "-", "5" >>),
      DelayQuery(<< "-", "5", "m", "s" >>),
      << Pair(<< "q" >>, << "a" >>), Pair(DelayKey, << "0" >>) >> }

InitRoute ==
    /\ \E route \in Routes, h \in RequestHeaders, q \in RequestQueries :
          in = [r \in {1} |-> InitCall("handleRoute", route, [header |-> h, query |-> q], 0)]
    /\ InitState

NextRoute ==
    \/ \E r \in Calls : ParseDelay(r)
    \/ \E r \in Calls : Match(r)
    \/ \E r \in Calls : Compose(r)
    \/ \E r \in Calls : Emit(r)

SpecRoute == InitRoute /\ [][NextRoute]_vars

-----------------------------------------------------------------------------
(* The composition of one response from every kind of response_header map: *)
(* none, names in either case, a Content-Type (also empty), and names that *)
(* differ only in case, which YAML and Go keep as different keys.          *)

Namect == << "c", "-", "t" >>

ComposeHeaders ==
    { NilMap,
      MapOf(NameXC :> "route"),
      MapOf(Namexc :> "route"),
      MapOf(ContentTypeKey :> "text/html" @@ NameXC :> "route"),
      MapOf(Namect :> "text/html"),
      MapOf(ContentTypeKey :> ""),
      MapOf(NameXC :> "one" @@ Namexc :> "two"),
      MapOf(ContentTypeKey :> "text/html" @@ Namect :> "text/xml") }

ComposeRoutes ==
    { Route(<< "Hello" >>, hdr, 0, dump, << >>) : hdr \in ComposeHeaders, dump \in BOOLEAN }
    \cup { Route(<< "Hello" >>, hdr, 0, dump,
                 << Condition(MapOf(NameA :> "Bearer T"), << "cond body" >>, chdr, 0) >>) :
             hdr \in ComposeHeaders, chdr \in ComposeHeaders, dump \in BOOLEAN }

InitCompose ==
    /\ \E route \in ComposeRoutes, h \in { << >>, Bearer } :
          in = [r \in {1} |-> InitCall("handleRoute", route, [header |-> h, query |-> << >>], 0)]
    /\ InitState

SpecCompose == InitCompose /\ [][NextRoute]_vars

-----------------------------------------------------------------------------
(* Two runs of handleRoute on the same request and on routes that differ   *)
(* in response_dump only: call 1 with the dump off, call 2 with it on.     *)
(* The routes take every response_header map above, a status or none, and  *)
(* no condition or one with its own headers and status.                    *)

InitDump ==
    /\ LET DumpConditions ==
               { Condition(MapOf(NameA :> "Bearer T"), << "cond body" >>, chdr, cst) :
                   chdr \in { NilMap, MapOf(Namexc :> "cond"),
                              MapOf(NameXC :> "one" @@ Namexc :> "two") },
                   cst \in { 0, 201 } }
           DumpRoutes ==
               { Route(<< "Hello" >>, hdr, st, FALSE, conds) :
                   hdr \in ComposeHeaders, st \in { 0, 401 },
                   conds \in { << >> } \cup { << c >> : c \in DumpConditions } }
       IN  \E route \in DumpRoutes, h \in { << >>, Bearer } :
              in = [r \in 1..2 |->
                      InitCall("handleRoute", [route EXCEPT !.ResponseDump = (r = 2)],
                               [header |-> h, query |-> << >>], 0)]
    /\ InitState

SpecDump == InitDump /\ [][NextRoute]_vars

-----------------------------------------------------------------------------
(* Direct calls of RouteCondition.MatchesHeaders, as the unit tests make   *)
(* them: any condition against any map of at most MaxKeys request headers. *)

MaxKeys == 2

SmallMaps ==
    LET MatchNames == { NameXK, NameXk, NameA }
        MatchValues == { "secret", "Secret" }
    IN  { MapOf(f) : f \in UNION { [D -> MatchValues] :
                                     D \in { D \in SUBSET MatchNames :
                                                Cardinality(D) <= MaxKeys } } }

InitMatch ==
    /\ \E hm \in SmallMaps \cup {NilMap}, h \in SmallMaps :
          in = [r \in {1} |->
                  InitCall("MatchesHeaders",
                           Route(<< >>, NilMap, 0, FALSE, << Condition(hm, << >>, NilMap, 0) >>),
                           NoRequest, h)]
    /\ InitState

\* c.MatchesHeaders(requestHeaders) returns, having visited the two maps in
\* some order
CallMatchesHeaders(r) ==
    /\ pc[r] = "call"
    /\ \E eo \in Orders(Keys(in[r].route.Conditions[1].HeaderMatch)),
          ao \in Orders(Keys(in[r].arg)) :
          ret' = [ret EXCEPT ![r] =
                    IF MatchesHeadersIn(in[r].route.Conditions[1], in[r].arg, eo, ao)
                    THEN "true" ELSE "false"]
    /\ pc' = [pc EXCEPT ![r] = "returned"]
    /\ UNCHANGED <<shutdownChan, sigChan, mainPc, in, delay, timer, sel, loc, resp, first,
                   delayErr, served>>

NextMatch == \E r \in Calls : CallMatchesHeaders(r)

SpecMatch == InitMatch /\ [][NextMatch]_vars

-----------------------------------------------------------------------------
(* Direct calls of Server.parseDelayParam, as TestServer_parseDelayParam   *)
(* makes them: a request whose delay parameter is any string of at most    *)
(* MaxLen of the characters below.                                         *)

MaxLen == 3

InitDelay ==
    /\ LET DelayChars == { "-", "+", ".", "0", "1", "5", "h", "m", "n", "s", "u", "x" }
           DelayStrings == UNION { [1..n -> DelayChars] : n \in 0..MaxLen }
       IN  \E str \in DelayStrings, q \in { << >>, << Pair(<< "q" >>, << "1", "s" >>) >> } :
              in = [r \in {1} |->
                      InitCall("parseDelayParam", DumpRoute,
                               [header |-> << >>, query |-> q \o DelayQuery(str)],
                               ZeroDuration)]
    /\ InitState

\* s.parseDelayParam(ctx) returns (delay, err)
CallParseDelayParam(r) ==
    /\ pc[r] = "call"
    /\ delay' = [delay EXCEPT ![r] = parseDelayParam(in[r].request).delay]
    /\ delayErr' = [delayErr EXCEPT ![r] = parseDelayParam(in[r].request).err]
    /\ pc' = [pc EXCEPT ![r] = "returned"]
    /\ UNCHANGED <<shutdownChan, sigChan, mainPc, in, timer, sel, loc, resp, ret, first, served>>

NextDelay == \E r \in Calls : CallParseDelayParam(r)

SpecDelay == InitDelay /\ [][NextDelay]_vars

-----------------------------------------------------------------------------
(* Direct calls of Server.parseDelayParam with a bare integer: the short   *)
(* ones of at most MaxDigits digits, as "250" of the test, and the         *)
(* integers around 2^58 = 288230376151711744, each with and without sign.  *)

MaxDigits == 2

\* TwoTo58Prefix is 2^58 without its last digit
InitWide ==
    /\ LET DigitChars == { Digits[i] : i \in 1..10 }
           ShortIntegers == UNION { [1..n -> DigitChars] : n \in 1..MaxDigits }
           TwoTo58Prefix == << "2", "8", "8", "2", "3", "0", "3", "7", "6",
                               "1", "5", "1", "7", "1", "1", "7", "4" >>
           LongIntegers == { TwoTo58Prefix \o << c >> : c \in DigitChars }
       IN  \E sign \in { << >>, << "-" >>, << "+" >> }, n \in ShortIntegers \cup LongIntegers :
              in = [r \in {1} |->
                      InitCall("parseDelayParam", DumpRoute,
                               [header |-> << >>, query |-> DelayQuery(sign \o n)],
                               ZeroDuration)]
    /\ InitState

SpecWide == InitWide /\ [][NextDelay]_vars

-----------------------------------------------------------------------------
(* configs.LoadConfig and validateConfig, src/configs/loader.go            *)

DefaultAddress == ":12330"

\* fmt's %d
RECURSIVE Itoa(_)
Itoa(n) == IF n < 10 THEN << Digits[n + 1] >> ELSE Itoa(n \div 10) \o << Digits[(n % 10) + 1] >>

\* the keys of the validMethods map
validMethods ==
    { << "G", "E", "T" >>, << "P", "O", "S", "T" >>, << "P", "U", "T" >>,
      << "D", "E", "L", "E", "T", "E" >>, << "P", "A", "T", "C", "H" >>,
      << "H", "E", "A", "D" >>, << "O", "P", "T", "I", "O", "N", "S" >> }

\* the loop of validateConfig from route i (1-based; the messages count from 0)
RECURSIVE validateRoutes_FirstRouteOnly(_, _)
validateRoutes_FirstRouteOnly(routes, i) ==
    IF i > Len(routes) \/ i > 1 THEN NoErr
    ELSE IF routes[i].Path = ""
         THEN Err(<< "route " >> \o Itoa(i - 1) \o << ": path cannot be empty" >>)
         ELSE IF routes[i].Method # << >> /\ routes[i].Method \notin validMethods
              THEN Err(<< "route " >> \o Itoa(i - 1) \o << ": invalid HTTP method '" >>
                       \o routes[i].Method \o << "'" >>)
              ELSE validateRoutes_FirstRouteOnly(routes, i + 1)

RECURSIVE validateRoutes(_, _)
validateRoutes(routes, i) ==
    IF i > Len(routes) THEN NoErr
    ELSE IF routes[i].Path = ""
         THEN Err(<< "route " >> \o Itoa(i - 1) \o << ": path cannot be empty" >>)
         ELSE IF routes[i].Method # << >> /\ routes[i].Method \notin validMethods
              THEN Err(<< "route " >> \o Itoa(i - 1) \o << ": invalid HTTP method '" >>
                       \o routes[i].Method \o << "'" >>)
              ELSE validateRoutes(routes, i + 1)

\* validateConfig(config): the configuration as the call leaves it, and err
validateConfig(config) ==
    LET c == IF config.Address = "" THEN [config EXCEPT !.Address = DefaultAddress] ELSE config
    IN  [config |-> c, err |-> validateRoutes(c.Routes, 1)]

\* the *ServerConfig nil
NilConfig == [isNil |-> TRUE]

ConfigPtr(c) == [isNil |-> FALSE, Address |-> c.Address, Routes |-> c.Routes]

\* LoadConfig(filePath), for a file that cannot be read, one that is not
\* YAML of a ServerConfig, or one that yaml.Unmarshal decodes to file.config
LoadConfig(file) ==
    IF ~file.readable
    THEN [config |-> NilConfig, err |-> Err(<< "failed to read config file: " >>)]
    ELSE IF ~file.decodes
         THEN [config |-> NilConfig, err |-> Err(<< "failed to unmarshal config: " >>)]
         ELSE LET v == validateConfig(file.config)
              IN  IF v.err.isErr
                  THEN [config |-> NilConfig, err |-> Err(<< "invalid config: " >> \o v.err.msg)]
                  ELSE [config |-> ConfigPtr(v.config), err |-> NoErr]

\* the number of routes of a configuration file
MaxRoutes == 2

ServerConfig(address, routes) == [Address |-> address, Routes |-> routes]

InitConfig ==
    /\ LET ConfigPaths == { "", "/health", "/api/users" }
           ConfigMethods ==
               { << >>, << "G", "E", "T" >>, << "g", "e", "t" >>, << "P", "O", "S", "T" >>,
                 << "P", "A", "T", "C", "H" >>, << "T", "R", "A", "C", "E" >> }
           ConfigAddresses == { "", ":8080" }
           ConfigRoutes ==
               { [Route(<< "OK" >>, NilMap, 0, FALSE, << >>) EXCEPT !.Path = p, !.Method = m] :
                   p \in ConfigPaths, m \in ConfigMethods }
           ConfigFiles ==
               { [readable |-> FALSE, decodes |-> FALSE, config |-> ServerConfig("", << >>)],
                 [readable |-> TRUE, decodes |-> FALSE, config |-> ServerConfig("", << >>)] }
               \cup { [readable |-> TRUE, decodes |-> TRUE, config |-> ServerConfig(a, rs)] :
                        a \in ConfigAddresses,
                        rs \in UNION { [1..n -> ConfigRoutes] : n \in 0..MaxRoutes } }
       IN  \E file \in ConfigFiles :
              in = [r \in {1} |-> InitCall("LoadConfig", DumpRoute, NoRequest, file)]
    /\ InitState

\* configs.LoadConfig(filePath) returns (config, err)
CallLoadConfig(r) ==
    /\ pc[r] = "call"
    /\ in[r].entry = "LoadConfig"
    /\ ret' = [ret EXCEPT ![r] = LoadConfig(in[r].arg)]
    /\ pc' = [pc EXCEPT ![r] = "returned"]
    /\ UNCHANGED <<shutdownChan, sigChan, mainPc, in, delay, timer, sel, loc, resp, first,
                   delayErr, served>>

NextConfig == \E r \in Calls : CallLoadConfig(r)

SpecConfig == InitConfig /\ [][NextConfig]_vars

-----------------------------------------------------------------------------
(* Server.RequestHandler serving one request from a configuration of at    *)
(* most MaxRoutes routes, as TestServer_RequestHandler does                *)

InitHandler ==
    /\ LET HandlerPaths == { "/health", "/status" }
           HandlerMethods == { << >>, << "g", "e", "t" >>, << "P", "O", "S", "T" >> }
           HandlerBodies == { << "one" >>, << "two" >> }
           HandlerRoutes ==
               { [Route(b, NilMap, 0, FALSE, << >>) EXCEPT !.Path = p, !.Method = m] :
                   p \in HandlerPaths, m \in HandlerMethods, b \in HandlerBodies }
           RequestMethods ==
               { << "G", "E", "T" >>, << "g", "e", "t" >>, << "P", "O", "S", "T" >> }
           HandlerRequests ==
               { [header |-> << >>, query |-> q, path |-> p, method |-> m] :
                   q \in { << >>, DelayQuery(<< "5", "m", "s" >>) }, p \in HandlerPaths,
                   m \in RequestMethods }
       IN  \E rs \in UNION { [1..n -> HandlerRoutes] : n \in 0..MaxRoutes },
              rq \in HandlerRequests :
              in = [r \in {1} |->
                      InitCall("RequestHandler", DumpRoute, rq, ServerConfig(":8080", rs))]
    /\ InitState

NextHandler ==
    \/ \E r \in Calls : RequestHandler(r)
    \/ \E r \in Calls : ParseDelay(r)
    \/ \E r \in Calls : SleepEnter(r)
    \/ \E r \in Calls : SelectPoll(r)
    \/ \E r \in Calls : TimerFire(r)
    \/ \E r \in Calls : SleepReturn(r)
    \/ \E r \in Calls : Match(r)
    \/ \E r \in Calls : Compose(r)
    \/ \E r \in Calls : Emit(r)

SpecHandler == InitHandler /\ [][NextHandler]_vars

-----------------------------------------------------------------------------
(* Direct calls of Server.extractHeaders and Server.extractQueryParameters *)
(* on a request of at most MaxPairs headers or query arguments, in the     *)
(* order VisitAll visits them.                                             *)

MaxPairs == 3

InitExtract ==
    /\ LET PairNames == { NameA, NameXK }
           PairValues == { << "1" >>, << "2" >> }
           PairLists ==
               UNION { [1..n -> { Pair(k, v) : k \in PairNames, v \in PairValues }] :
                         n \in 0..MaxPairs }
       IN  \E ps \in PairLists :
              \/ in = [r \in {1} |->
                         InitCall("extractHeaders", DumpRoute,
                                  [header |-> ps, query |-> << >>], 0)]
              \/ in = [r \in {1} |->
                         InitCall("extractQueryParameters", DumpRoute,
                                  [header |-> << >>, query |-> ps], 0)]
    /\ InitState

\* s.extractHeaders(ctx) returns the map
CallExtractHeaders(r) ==
    /\ pc[r] = "call"
    /\ in[r].entry = "extractHeaders"
    /\ ret' = [ret EXCEPT ![r] = extractHeaders(in[r].request)]
    /\ pc' = [pc EXCEPT ![r] = "returned"]
    /\ UNCHANGED <<shutdownChan, sigChan, mainPc, in, delay, timer, sel, loc, resp, first,
                   delayErr, served>>

\* s.extractQueryParameters(ctx) returns the map
CallExtractQueryParameters(r) ==
    /\ pc[r] = "call"
    /\ in[r].entry = "extractQueryParameters"
    /\ ret' = [ret EXCEPT ![r] = extractQueryParameters(in[r].request)]
    /\ pc' = [pc EXCEPT ![r] = "returned"]
    /\ UNCHANGED <<shutdownChan, sigChan, mainPc, in, delay, timer, sel, loc, resp, first,
                   delayErr, served>>

NextExtract ==
    \/ \E r \in Calls : CallExtractHeaders(r)
    \/ \E r \in Calls : CallExtractQueryParameters(r)

SpecExtract == InitExtract /\ [][NextExtract]_vars

-----------------------------------------------------------------------------
(* What the claims speak of, stated without the operators of the model     *)

\* two names equal ignoring case
SameIgnoringCase(s, t) ==
    [i \in 1..Len(s) |-> ToLower(s[i])] = [i \in 1..Len(t) |-> ToLower(t[i])]

\* every required (name, value) has a request header with that name,
\* ignoring case, and exactly that value
Satisfies(h, hm) ==
    \A k \in DOMAIN hm.m :
        \E a \in DOMAIN h.m : SameIgnoringCase(k, a) /\ h.m[a] = hm.m[k]

\* the mapping of a request's pairs: each name with its last value
LastIndex(pairs, k) ==
    CHOOSE i \in 1..Len(pairs) :
        pairs[i].key = k /\ \A j \in (i + 1)..Len(pairs) : pairs[j].key # k
MappingOf(pairs) ==
    MapOf([k \in { pairs[i].key : i \in 1..Len(pairs) } |-> pairs[LastIndex(pairs, k)].value])

RequestHeaderMap(r) == MappingOf(in[r].request.header)

\* the first condition in declared order that the request satisfies, 0 if none
FirstSatisfied(conds, h) ==
    IF \E i \in 1..Len(conds) : Satisfies(h, conds[i].HeaderMatch)
    THEN CHOOSE i \in 1..Len(conds) :
            /\ Satisfies(h, conds[i].HeaderMatch)
            /\ \A j \in 1..(i - 1) : ~Satisfies(h, conds[j].HeaderMatch)
    ELSE 0

\* the source of a response: condition i of the route, or the route (i = 0)
SourceOf(route, i) == IF i > 0 THEN route.Conditions[i] ELSE route

StatusOf(src) == IF src.ResponseStatus = 0 THEN 200 ELSE src.ResponseStatus

\* the configured headers of a source under their canonical names
ConfiguredHeaders(src) ==
    [n \in { NormalizeHeaderKey(k) : k \in DOMAIN src.ResponseHeader.m } |->
        src.ResponseHeader.m[CHOOSE k \in DOMAIN src.ResponseHeader.m : NormalizeHeaderKey(k) = n]]

WithContentType(f, ct) ==
    [n \in (DOMAIN f) \cup {ContentTypeKey} |-> IF n = ContentTypeKey THEN ct ELSE f[n]]

\* the headers of a response composed from src
HeadersFrom(src, dump) ==
    IF dump THEN WithContentType(ConfiguredHeaders(src), "application/json")
    ELSE IF ContentTypeKey \in DOMAIN ConfiguredHeaders(src) THEN ConfiguredHeaders(src)
    ELSE WithContentType(ConfiguredHeaders(src), "text/plain; charset=utf-8")

\* the locals hold the response of src
LocalsFrom(l, src) ==
    /\ l.responseBody = src.ResponseBody
    /\ l.responseHeaders.m = src.ResponseHeader.m
    /\ l.responseStatus = StatusOf(src)

\* the emitted response is the one composed from src: status and headers,
\* and the body unless the route dumps the request
EmittedFrom(r, src) ==
    /\ resp[r].statusCode = StatusOf(src)
    /\ resp[r].header = HeadersFrom(src, in[r].route.ResponseDump)
    /\ ~in[r].route.ResponseDump => resp[r].body = src.ResponseBody

Matched(r) == pc[r] \in {"compose", "dump", "emit"}

-----------------------------------------------------------------------------
(* Claims                                                                  *)

\* C1: a request that reaches matching is answered from the first condition,
\* in declared order, that its headers satisfy, never from a later one that
\* they satisfy too, and from the route's own defaults when they satisfy none.
C1_FirstMatchWins ==
    \A r \in Calls :
        IsRequest(r) /\ Matched(r) =>
            LET i == FirstSatisfied(in[r].route.Conditions, RequestHeaderMap(r))
            IN  /\ loc[r].matched = i
                /\ loc[r].conditionMatched = (i > 0)
                /\ LocalsFrom(loc[r], SourceOf(in[r].route, i))
                /\ pc[r] = "emit" => EmittedFrom(r, SourceOf(in[r].route, i))

\* a response emitted from the first of two different conditions that the
\* request both satisfies
C1_Witness ==
    \E r \in Calls :
        /\ pc[r] = "emit"
        /\ Len(in[r].route.Conditions) = 2
        /\ in[r].route.Conditions[1] # in[r].route.Conditions[2]
        /\ in[r].route.Conditions[1].ResponseStatus # in[r].route.Conditions[2].ResponseStatus
        /\ Keys(in[r].route.Conditions[1].HeaderMatch) # {}
        /\ Satisfies(RequestHeaderMap(r), in[r].route.Conditions[1].HeaderMatch)
        /\ Satisfies(RequestHeaderMap(r), in[r].route.Conditions[2].HeaderMatch)
        /\ loc[r].matched = 1

\* C2: MatchesHeaders returns true exactly when every (name, value) of
\* header_match has a request header whose name is equal ignoring case and
\* whose value is exactly equal.
C2_MatchesHeadersIff ==
    \A r \in Calls :
        in[r].entry = "MatchesHeaders" /\ pc[r] = "returned" =>
            (ret[r] = "true") = Satisfies(in[r].arg, in[r].route.Conditions[1].HeaderMatch)

\* X-K=secret required, the request has x-k=secret and no X-K: true
C2_Witness ==
    \E r \in Calls :
        /\ pc[r] = "returned"
        /\ ret[r] = "true"
        /\ Keys(in[r].route.Conditions[1].HeaderMatch) = {NameXK}
        /\ in[r].route.Conditions[1].HeaderMatch.m[NameXK] = "secret"
        /\ NameXK \notin Keys(in[r].arg)
        /\ in[r].arg.m[NameXk] = "secret"

\* C3: a condition with an empty or absent header_match, at position i with
\* no earlier condition satisfied, answers every request: the route's
\* defaults and the conditions after i are not used.
C3_EmptyMatchIsCatchAll ==
    \A r \in Calls :
        IsRequest(r) /\ Matched(r) =>
            \A i \in 1..Len(in[r].route.Conditions) :
                ( /\ DOMAIN in[r].route.Conditions[i].HeaderMatch.m = {}
                  /\ \A j \in 1..(i - 1) :
                        ~Satisfies(RequestHeaderMap(r), in[r].route.Conditions[j].HeaderMatch) )
                => /\ loc[r].conditionMatched
                   /\ loc[r].matched = i
                   /\ LocalsFrom(loc[r], in[r].route.Conditions[i])
                   /\ pc[r] = "emit" => EmittedFrom(r, in[r].route.Conditions[i])

\* a request with headers answered by a catch-all condition in second
\* position, on a route whose defaults differ from it
C3_Witness ==
    \E r \in Calls :
        /\ pc[r] = "emit"
        /\ Len(in[r].route.Conditions) = 2
        /\ in[r].route.Conditions[2].HeaderMatch.isNil
        /\ in[r].request.header # << >>
        /\ loc[r].matched = 2
        /\ resp[r].statusCode = 201
        /\ in[r].route.ResponseStatus = 401

C5_Original ==
    \A r \in Calls :
        IsRequest(r) /\ pc[r] = "emit"
        /\ FirstSatisfied(in[r].route.Conditions, RequestHeaderMap(r)) > 0 =>
            LET c == in[r].route.Conditions[
                        FirstSatisfied(in[r].route.Conditions, RequestHeaderMap(r))]
            IN  /\ resp[r].body = c.ResponseBody
                /\ resp[r].statusCode = StatusOf(c)
                /\ \A n \in DOMAIN resp[r].header :
                       n = ContentTypeKey
                       \/ (n \in DOMAIN ConfiguredHeaders(c)
                           /\ resp[r].header[n] = ConfiguredHeaders(c)[n])

\* C5, amended: when a condition matches, status and headers come from the
\* condition with no fallback to the route (unset status gives 200, no
\* headers gives only the default Content-Type), and so does the body when
\* the route's dump flag is off.
C5_NoFallbackToRoute ==
    \A r \in Calls :
        IsRequest(r) /\ pc[r] = "emit"
        /\ FirstSatisfied(in[r].route.Conditions, RequestHeaderMap(r)) > 0 =>
            LET c == in[r].route.Conditions[
                        FirstSatisfied(in[r].route.Conditions, RequestHeaderMap(r))]
            IN  /\ resp[r].statusCode = (IF c.ResponseStatus = 0 THEN 200 ELSE c.ResponseStatus)
                /\ resp[r].header = HeadersFrom(c, in[r].route.ResponseDump)
                /\ ~in[r].route.ResponseDump => resp[r].body = c.ResponseBody

\* a matched condition with no body, no headers and no status, on a route
\* with body, headers and status 401: empty body, status 200, no X-R
C5_Witness ==
    \E r \in Calls :
        /\ pc[r] = "emit"
        /\ loc[r].conditionMatched
        /\ ~in[r].route.ResponseDump
        /\ in[r].route.ResponseStatus = 401
        /\ in[r].route.Conditions[loc[r].matched].ResponseBody = << >>
        /\ in[r].route.Conditions[loc[r].matched].ResponseHeader.isNil
        /\ in[r].route.Conditions[loc[r].matched].ResponseStatus = 0
        /\ resp[r].body = << >>
        /\ resp[r].statusCode = 200
        /\ resp[r].header = (ContentTypeKey :> "text/plain; charset=utf-8")

\* the delay parameter of a request: the value of its first `delay` argument
DelayParam(r) ==
    LET q == in[r].request.query
    IN  IF \E i \in 1..Len(q) : q[i].key = DelayKey
        THEN q[CHOOSE i \in 1..Len(q) :
                  q[i].key = DelayKey /\ \A j \in 1..(i - 1) : q[j].key # DelayKey].value
        ELSE << >>

NeitherDurationNorInteger(s) ==
    s # << >> /\ ParseDuration(s).err.isErr /\ Atoi(s).err.isErr

\* C6: a request whose delay parameter is neither a duration nor an integer
\* gets status 400, Content-Type text/plain and the body "Invalid delay
\* parameter: " followed by the message of the duration parse, and nothing
\* else happens to it: no timer, no select, no matching, nothing of the
\* route in the response.
C6_InvalidDelayIs400 ==
    \A r \in Calls :
        IsRequest(r) /\ NeitherDurationNorInteger(DelayParam(r)) =>
            /\ pc[r] \in {"start", "bad_request"}
            /\ timer[r] = "none"
            /\ sel[r] = "none"
            /\ loc[r] = ZeroLocals
            /\ pc[r] = "start" => resp[r] = NewResponse
            /\ pc[r] = "bad_request" =>
                  /\ resp[r].statusCode = 400
                  /\ resp[r].header = (ContentTypeKey :> "text/plain")
                  /\ resp[r].body = << "Invalid delay parameter: " >>
                                    \o ParseDuration(DelayParam(r)).err.msg
                  /\ resp[r].writes = 1

\* delay=5x on the dumping route, with a header: 400 and the message about
\* the unknown unit
C6_Witness ==
    \E r \in Calls :
        /\ pc[r] = "bad_request"
        /\ in[r].route.ResponseDump
        /\ in[r].request.header # << >>
        /\ DelayParam(r) = << "5", "x" >>
        /\ resp[r].body = << "Invalid delay parameter: ", "time: unknown unit ", "\"", "x", "\"",
                             " in duration ", "\"", "5", "x", "\"" >>

\* C7: when shutdownChan is closed while a request is blocked in the select
\* with its timer not fired, the request takes the shutdown case, returns
\* from handleRoute in state ABORTED and stays there, and no status, header
\* or body is ever written for it.
C7_ShutdownDuringSleepAborts ==
    [][ \A r \in Calls :
          IsRequest(r) =>
            /\ ( pc[r] = "parked" /\ timer[r] = "active"
                 /\ shutdownChan = "open" /\ shutdownChan' = "closed" )
               => (pc'[r] = "woken" /\ sel'[r] = "shutdown")
            /\ ( pc[r] = "woken" /\ sel[r] = "shutdown" /\ pc'[r] # pc[r] )
               => pc'[r] = "aborted"
            /\ pc[r] = "aborted" => pc'[r] = "aborted"
            /\ sel[r] = "shutdown" => (sel'[r] = "shutdown" /\ resp'[r] = NewResponse)
      ]_vars

\* a request woken from the select by the close, its timer still running
C7_Witness ==
    \E r \in Calls :
        /\ IsRequest(r)
        /\ pc[r] = "woken"
        /\ sel[r] = "shutdown"
        /\ timer[r] = "active"
        /\ shutdownChan = "closed"

\* C8: the close of shutdownChan is observed by every call blocked in the
\* select at that moment, however many there are; observing it does not
\* undo it, so no call stays blocked once it is closed and a call that
\* reaches the select later, with its timer not fired, observes it too.
C8_ShutdownIsBroadcast ==
    /\ [](shutdownChan = "closed" => \A r \in Calls : pc[r] # "parked")
    /\ [][ /\ \A r \in Calls :
                (pc[r] = "parked" /\ shutdownChan = "open" /\ shutdownChan' = "closed")
                => (pc'[r] = "woken" /\ sel'[r] = "shutdown")
           /\ shutdownChan = "closed" => shutdownChan' = "closed"
           /\ \A r \in Calls :
                ( shutdownChan = "closed" /\ pc[r] = "select" /\ pc'[r] # "select"
                  /\ timer[r] # "fired" )
                => sel'[r] = "shutdown"
         ]_vars

\* two calls blocked in the select, both woken by the one close
C8_Witness ==
    \E r1, r2 \in Calls :
        /\ r1 # r2
        /\ pc[r1] = "woken" /\ sel[r1] = "shutdown" /\ timer[r1] = "active"
        /\ pc[r2] = "woken" /\ sel[r2] = "shutdown" /\ timer[r2] = "active"
        /\ shutdownChan = "closed"

PastDelay == {"match", "compose", "dump", "emit"}

\* C9: a request that has left the delay step stays on the path to EMIT
\* whatever main does, and in EMIT it has its whole response: the status and
\* headers of the chosen source, and one body, the source's or the dump.
C9_PastDelayNeverAborted ==
    /\ [][ \A r \in Calls :
             IsRequest(r) /\ pc[r] \in PastDelay =>
                /\ pc'[r] \in PastDelay
                /\ pc[r] = "emit" => (pc'[r] = "emit" /\ resp'[r] = resp[r])
         ]_vars
    /\ [](\A r \in Calls :
             IsRequest(r) /\ pc[r] = "emit" =>
                /\ EmittedFrom(r, SourceOf(in[r].route,
                                  FirstSatisfied(in[r].route.Conditions, RequestHeaderMap(r))))
                /\ resp[r].writes = 1
                /\ in[r].route.ResponseDump => Head(resp[r].body) = "{\n")

\* main is about to close shutdownChan while a request that slept through
\* its delay has matched a condition and not yet written anything
C9_Witness ==
    \E r \in Calls :
        /\ IsRequest(r)
        /\ pc[r] = "compose"
        /\ ret[r] = "completed"
        /\ loc[r].conditionMatched
        /\ mainPc = "closing"
        /\ shutdownChan = "open"

\* the delay of a call is absent, zero or negative
NonPositiveDelay(r) ==
    IF IsRequest(r)
    THEN \/ DelayParam(r) = << >>
         \/ ( /\ ~parseDelayParam(in[r].request).err.isErr
              /\ ~DurPositive(parseDelayParam(in[r].request).delay) )
    ELSE in[r].arg.s <= 0 /\ in[r].arg.ns <= 0

\* C10: sleepWithCancellation with a duration <= 0 returns completed without
\* a timer and without a select on shutdownChan, and a request whose delay is
\* absent, zero or negative never takes the shutdown case and never ends in
\* ABORTED, whether shutdownChan is closed or not.
C10_NonPositiveDelayNeverWaits ==
    \A r \in Calls :
        in[r].entry \in {"handleRoute", "sleepWithCancellation"} /\ NonPositiveDelay(r) =>
            /\ timer[r] = "none"
            /\ sel[r] = "none"
            /\ ret[r] \in {"none", "completed"}
            /\ IsRequest(r) => pc[r] \in {"start"} \cup PastDelay
            /\ ~IsRequest(r) => pc[r] \in {"sleep", "returned"}
            /\ pc[r] = "returned" => ret[r] = "completed"

\* after the close: a direct call with a negative duration has returned
\* completed and a request with delay=-5ms has its response
C10_Witness ==
    /\ shutdownChan = "closed"
    /\ \E r \in Calls :
          /\ in[r].entry = "sleepWithCancellation"
          /\ in[r].arg = Dur(0, 0 - 10 * Millisecond)
          /\ pc[r] = "returned"
          /\ ret[r] = "completed"
    /\ \E r \in Calls :
          /\ IsRequest(r)
          /\ DelayParam(r) = << "-", "5", "m", "s" >>
          /\ delay[r] = Dur(0, 0 - 5 * Millisecond)
          /\ pc[r] = "emit"

\* the call has returned from sleepWithCancellation with a positive duration
SleptPositive(r) == timer[r] # "none" /\ ret[r] \in {"completed", "cancelled"}

\* C11: for a positive duration sleepWithCancellation returns cancelled only
\* if shutdownChan is closed and completed only if its timer has fired; with
\* the timer fired and shutdownChan never closed it returns completed, and
\* when shutdownChan is closed before the timer fires it returns cancelled.
C11_Original ==
    \A r \in Calls :
        SleptPositive(r) =>
            /\ ret[r] = "cancelled" => shutdownChan = "closed"
            /\ ret[r] = "completed" => timer[r] = "fired"
            /\ (timer[r] = "fired" /\ shutdownChan = "open") => ret[r] = "completed"
            /\ first[r] = "shutdown" => ret[r] = "cancelled"

\* the JSON document of a request: the object with the keys headers and
\* query_parameters, each the object of the request's names and values
DumpDocument(r) ==
    MarshalIndent([Headers |-> RequestHeaderMap(r),
                   QueryParameters |-> MappingOf(in[r].request.query)]).json

\* the fragments of a document that open a top-level key
TopLevelKeys(doc) ==
    { i \in 1..Len(doc) : doc[i] \in {"  \"headers\": ", "  \"query_parameters\": "} }

\* C12: on a route with the dump flag set, every emitted body is the JSON
\* document of the request, with the two top-level keys headers and
\* query_parameters, whatever body the route or the matched condition
\* configures, and the Content-Type is application/json whatever
\* Content-Type the chosen source configures.
C12_DumpReplacesBody ==
    \A r \in Calls :
        IsRequest(r) /\ pc[r] = "emit" /\ in[r].route.ResponseDump =>
            /\ resp[r].body = DumpDocument(r)
            /\ Head(resp[r].body) = "{\n"
            /\ resp[r].body[Len(resp[r].body)] = "\n}"
            /\ Cardinality(TopLevelKeys(resp[r].body)) = 2
            /\ resp[r].writes = 1
            /\ ContentTypeKey \in DOMAIN resp[r].header
            /\ resp[r].header[ContentTypeKey] = "application/json"

\* a dumping route that configures the body "Hello" and the Content-Type
\* text/html, asked with one header and ?q=a&delay=0
C12_Witness ==
    \E r \in Calls :
        /\ pc[r] = "emit"
        /\ in[r].route.ResponseDump
        /\ loc[r].responseBody = << "Hello" >>
        /\ loc[r].responseHeaders.m[ContentTypeKey] = "text/html"
        /\ resp[r].header[ContentTypeKey] = "application/json"
        /\ resp[r].body =
              << "{\n", "  \"headers\": ", "{\n",
                 "    ", "\"", "A", "\"", ": ", "\"", "Bearer T", "\"", "\n", "  }", ",\n",
                 "  \"query_parameters\": ", "{\n",
                 "    ", "\"", "d", "e", "l", "a", "y", "\"", ": ", "\"", "0", "\"", ",\n",
                 "    ", "\"", "q", "\"", ": ", "\"", "a", "\"", "\n", "  }", "\n}" >>

\* --- duration literals, as the documentation of time.ParseDuration
\* describes them: an optional sign, then one or more decimal numbers,
\* each with an optional fraction and a unit suffix

IsDigits(s) == \A i \in 1..Len(s) : s[i] \in {"0", "1", "2", "3", "4", "5", "6", "7", "8", "9"}

RECURSIVE Decimal(_)
Decimal(s) ==
    IF s = << >> THEN 0
    ELSE 10 * Decimal(SubSeq(s, 1, Len(s) - 1)) + DigitVal(s[Len(s)])

RECURSIVE PowerOfTen(_)
PowerOfTen(k) == IF k = 0 THEN 1 ELSE 10 * PowerOfTen(k - 1)

\* the units of a literal: whole seconds, or nanoseconds below a second
LiteralUnits ==
    (<< "n", "s" >> :> [sec |-> 0, nsec |-> 1]) @@ (<< "u", "s" >> :> [sec |-> 0, nsec |-> 1000])
    @@ (<< "m", "s" >> :> [sec |-> 0, nsec |-> 1000000]) @@ (<< "s" >> :> [sec |-> 1, nsec |-> 0])
    @@ (<< "m" >> :> [sec |-> 60, nsec |-> 0]) @@ (<< "h" >> :> [sec |-> 3600, nsec |-> 0])

\* the ways to read t as digits, an optional '.' and digits, and a unit:
\* <<a, b>> with the whole part t[1..a], the fraction t[a+2..b], the unit after b
NumberAndUnit(t) ==
    { ab \in (0..Len(t)) \X (0..Len(t)) :
        /\ ab[1] <= ab[2] /\ ab[2] < Len(t)
        /\ IsDigits(SubSeq(t, 1, ab[1]))
        /\ \/ ab[2] = ab[1]
           \/ (t[ab[1] + 1] = "." /\ IsDigits(SubSeq(t, ab[1] + 2, ab[2])))
        /\ ab[1] > 0 \/ ab[2] > ab[1] + 1
        /\ SubSeq(t, ab[2] + 1, Len(t)) \in DOMAIN LiteralUnits }

\* the whole nanoseconds of number * unit, as [s, ns]
NumberTimesUnit(t) ==
    LET ab == CHOOSE ab \in NumberAndUnit(t) : TRUE
        k == IF ab[2] = ab[1] THEN 0 ELSE ab[2] - ab[1] - 1
        n == Decimal(SubSeq(t, 1, ab[1])) * PowerOfTen(k) + Decimal(SubSeq(t, ab[1] + 2, ab[2]))
        u == LiteralUnits[SubSeq(t, ab[2] + 1, Len(t))]
    IN  IF u.nsec = 0
        THEN [s |-> (n * u.sec) \div PowerOfTen(k),
              ns |-> ((n * u.sec) % PowerOfTen(k)) * PowerOfTen(9 - k)]
        ELSE [s |-> ((n * u.nsec) \div PowerOfTen(k)) \div PowerOfTen(9),
              ns |-> ((n * u.nsec) \div PowerOfTen(k)) % PowerOfTen(9)]

RECURSIVE IsUnsignedLiteral(_)
IsUnsignedLiteral(s) ==
    \E c \in 1..Len(s) :
        /\ NumberAndUnit(SubSeq(s, 1, c)) # {}
        /\ c = Len(s) \/ IsUnsignedLiteral(SubSeq(s, c + 1, Len(s)))

RECURSIVE UnsignedLiteralValue(_)
UnsignedLiteralValue(s) ==
    LET c == CHOOSE c \in 1..Len(s) :
                /\ NumberAndUnit(SubSeq(s, 1, c)) # {}
                /\ c = Len(s) \/ IsUnsignedLiteral(SubSeq(s, c + 1, Len(s)))
        x == NumberTimesUnit(SubSeq(s, 1, c))
        y == IF c = Len(s) THEN [s |-> 0, ns |-> 0]
             ELSE UnsignedLiteralValue(SubSeq(s, c + 1, Len(s)))
    IN  [s |-> x.s + y.s + (x.ns + y.ns) \div PowerOfTen(9), ns |-> (x.ns + y.ns) % PowerOfTen(9)]

Unsigned(s) == IF s # << >> /\ s[1] \in {"+", "-"} THEN Tail(s) ELSE s
Negative(s) == s # << >> /\ s[1] = "-"

IsDurationLiteral(s) == IsUnsignedLiteral(Unsigned(s))
DurationLiteralValue(s) ==
    IF Negative(s)
    THEN [s |-> 0 - UnsignedLiteralValue(Unsigned(s)).s, ns |-> 0 - UnsignedLiteralValue(Unsigned(s)).ns]
    ELSE UnsignedLiteralValue(Unsigned(s))

\* a bare signed integer, and that many milliseconds
IsBareInteger(s) == Unsigned(s) # << >> /\ IsDigits(Unsigned(s))
BareIntegerMilliseconds(s) ==
    LET n == Decimal(Unsigned(s))
        sg == IF Negative(s) THEN 0 - 1 ELSE 1
    IN  [s |-> sg * (n \div 1000), ns |-> sg * (n % 1000) * 1000000]

DurationParseErrors ==
    { "time: invalid duration ", "time: missing unit in duration ", "time: unknown unit " }

DenotedDelay(s) ==
    IF IsDurationLiteral(s) THEN DurationLiteralValue(s) ELSE BareIntegerMilliseconds(s)

\* the delay parameter denotes a negative duration
NegativeDelay(s) ==
    /\ IsDurationLiteral(s) \/ IsBareInteger(s)
    /\ DenotedDelay(s).s < 0 \/ DenotedDelay(s).ns < 0

\* the query of a request without its delay arguments
RECURSIVE WithoutDelay(_)
WithoutDelay(q) ==
    IF q = << >> THEN << >>
    ELSE (IF Head(q).key = DelayKey THEN << >> ELSE << Head(q) >>) \o WithoutDelay(Tail(q))

\* the response to a request with the query q on the route of call r: the
\* chosen source's status and headers, and its body or the dump
ResponseTo(r, q) ==
    LET src == SourceOf(in[r].route,
                        FirstSatisfied(in[r].route.Conditions, RequestHeaderMap(r)))
    IN  [statusCode |-> StatusOf(src),
         header |-> HeadersFrom(src, in[r].route.ResponseDump),
         body |-> IF in[r].route.ResponseDump
                  THEN MarshalIndent([Headers |-> RequestHeaderMap(r),
                                      QueryParameters |-> MappingOf(q)]).json
                  ELSE src.ResponseBody,
         writes |-> 1]

\* what C14 says of a request before its response: the negative duration
\* is resolved without error, and there is no wait and no timer
NegativeDelayNoWait(r) ==
    /\ pc[r] \in {"start"} \cup PastDelay
    /\ timer[r] = "none" /\ sel[r] = "none" /\ ret[r] = "none"
    /\ ~delayErr[r].isErr
    /\ pc[r] # "start" => delay[r] = DenotedDelay(DelayParam(r))

ChosenSource(r) ==
    SourceOf(in[r].route, FirstSatisfied(in[r].route.Conditions, RequestHeaderMap(r)))

\* C15: the emitted status of a request that reaches EMIT is 200 when the
\* status of the chosen source (matched condition, else route) is zero or
\* unset, and is otherwise exactly the configured status of that source.
C15_StatusOfChosenSource ==
    \A r \in Calls :
        IsRequest(r) /\ pc[r] = "emit" =>
            /\ ChosenSource(r).ResponseStatus = 0 => resp[r].statusCode = 200
            /\ ChosenSource(r).ResponseStatus # 0 =>
                  resp[r].statusCode = ChosenSource(r).ResponseStatus

\* a condition without a status answers with 200 on a route with status 401,
\* although a later condition with status 201 is satisfied too
C15_Witness ==
    \E r \in Calls :
        /\ pc[r] = "emit"
        /\ in[r].route.ResponseStatus = 401
        /\ Len(in[r].route.Conditions) = 2
        /\ in[r].route.Conditions[1].ResponseStatus = 0
        /\ in[r].route.Conditions[2].ResponseStatus = 201
        /\ Keys(in[r].route.Conditions[1].HeaderMatch) = {NameXK}
        /\ loc[r].matched = 1
        /\ resp[r].statusCode = 200

\* C16 as stated: a route or condition whose configured response_status is
\* zero or negative yields an emitted status of 200.
C16_Original ==
    \A r \in Calls :
        IsRequest(r) /\ pc[r] = "emit" /\ ChosenSource(r).ResponseStatus <= 0 =>
            resp[r].statusCode = 200

\* C16, amended: a route or condition whose configured response_status is
\* zero yields an emitted status of 200; a negative response_status is
\* emitted as configured.
C16_OnlyZeroDefaults ==
    \A r \in Calls :
        IsRequest(r) /\ pc[r] = "emit" =>
            /\ ChosenSource(r).ResponseStatus = 0 => resp[r].statusCode = 200
            /\ ChosenSource(r).ResponseStatus < 0 =>
                  /\ resp[r].statusCode = ChosenSource(r).ResponseStatus
                  /\ resp[r].statusCode # 200

\* a route with response_status -1 and no matching condition answers -1
C16_Witness ==
    \E r \in Calls :
        /\ pc[r] = "emit"
        /\ in[r].route.ResponseStatus = 0 - 1
        /\ in[r].route.Conditions # << >>
        /\ ~loc[r].conditionMatched
        /\ resp[r].statusCode = 0 - 1

\* the values that a source configures under names with the canonical form n
ConfiguredUnder(src, n) ==
    { src.ResponseHeader.m[k] :
        k \in { k \in DOMAIN src.ResponseHeader.m : NormalizeHeaderKey(k) = n } }

PlainTextTypes == { "text/plain", "text/plain; charset=utf-8" }

\* C17 as stated: with dump off, the emitted Content-Type is a plain-text
\* type if the chosen source's headers contain no Content-Type and is the
\* configured value if they contain one, and every other header of the
\* chosen source is emitted with its configured value.
C17_Original ==
    \A r \in Calls :
        IsRequest(r) /\ pc[r] = "emit" /\ ~in[r].route.ResponseDump =>
            /\ ConfiguredUnder(ChosenSource(r), ContentTypeKey) = {} =>
                  resp[r].header[ContentTypeKey] \in PlainTextTypes
            /\ \A k \in DOMAIN ChosenSource(r).ResponseHeader.m :
                  /\ NormalizeHeaderKey(k) \in DOMAIN resp[r].header
                  /\ resp[r].header[NormalizeHeaderKey(k)] = ChosenSource(r).ResponseHeader.m[k]

\* the values that a source's headers can give the emitted header n: those
\* configured under n, an empty Content-Type counting as none
EmittedCandidates(src, n) ==
    IF n = ContentTypeKey
    THEN (ConfiguredUnder(src, n) \ {""})
         \cup (IF ConfiguredUnder(src, n) = {} \/ "" \in ConfiguredUnder(src, n)
               THEN PlainTextTypes
               ELSE {})
    ELSE ConfiguredUnder(src, n)

\* C17, amended: with dump off, the emitted Content-Type is a plain-text
\* type if the chosen source configures no Content-Type or an empty one,
\* and is the configured value if it configures one; every other header of
\* the chosen source is emitted, under its canonical name, with its
\* configured value; where the source has several names equal ignoring
\* case, the header is emitted once, with one of their values; nothing
\* else is emitted.
C17_HeadersOfChosenSource ==
    \A r \in Calls :
        IsRequest(r) /\ pc[r] = "emit" /\ ~in[r].route.ResponseDump =>
            /\ DOMAIN resp[r].header =
                  { NormalizeHeaderKey(k) : k \in DOMAIN ChosenSource(r).ResponseHeader.m }
                  \cup {ContentTypeKey}
            /\ \A n \in DOMAIN resp[r].header :
                  resp[r].header[n] \in EmittedCandidates(ChosenSource(r), n)

\* a matched condition that configures c-t: text/html answers with that
\* Content-Type, on a route that configures X-C and no Content-Type
C17_Witness ==
    \E r \in Calls :
        /\ pc[r] = "emit"
        /\ ~in[r].route.ResponseDump
        /\ loc[r].conditionMatched
        /\ in[r].route.Conditions[1].ResponseHeader = MapOf(Namect :> "text/html")
        /\ in[r].route.ResponseHeader = MapOf(NameXC :> "route")
        /\ resp[r].header = [x \in {ContentTypeKey} |-> "text/html"]

\* the steps of handleRoute that can follow each step
StepsAfter(p) ==
    CASE p = "start" -> {"bad_request", "sleep", "match"}
      [] p = "sleep" -> {"select"}
      [] p = "select" -> {"parked", "selected"}
      [] p = "parked" -> {"woken"}
      [] p \in {"selected", "woken"} -> {"match", "aborted"}
      [] p = "match" -> {"compose"}
      [] p = "compose" -> {"dump"}
      [] p = "dump" -> {"emit"}
      [] OTHER -> {}

BeforeMatching == {"start", "sleep", "select", "parked", "selected", "woken"}

\* C18: the steps of one request are strictly ordered.  Nothing of the
\* route's response (status, header, body) is written before the delay
\* parameter is resolved and, for a positive delay, before the timer has
\* fired; the conditions are matched after the delay and before any write
\* to the response; and every step of a request is followed by the next
\* one in the order of handleRoute.
C18_StepsInOrder ==
    /\ [](\A r \in Calls :
             IsRequest(r) =>
                /\ pc[r] \in BeforeMatching \cup {"match", "aborted"} =>
                      resp[r] = NewResponse /\ loc[r] = ZeroLocals
                /\ pc[r] = "compose" => resp[r] = NewResponse /\ loc[r] # ZeroLocals
                /\ (resp[r] # NewResponse /\ pc[r] # "bad_request") =>
                      /\ pc[r] \in {"dump", "emit"}
                      /\ loc[r] # ZeroLocals
                /\ pc[r] \in PastDelay =>
                      /\ ~delayErr[r].isErr
                      /\ delay[r] = parseDelayParam(in[r].request).delay
                      /\ DurPositive(delay[r]) => (timer[r] = "fired" /\ ret[r] = "completed")
                /\ pc[r] = "dump" => resp[r].writes = 0)
    /\ [][ \A r \in Calls :
             IsRequest(r) /\ pc'[r] # pc[r] => pc'[r] \in StepsAfter(pc[r]) ]_vars

\* a request with delay=5ms has its response: its timer has fired, its
\* condition was matched and its body was written once
C18_Witness ==
    \E r \in Calls :
        /\ IsRequest(r)
        /\ pc[r] = "emit"
        /\ DurPositive(delay[r])
        /\ timer[r] = "fired"
        /\ loc[r].conditionMatched
        /\ resp[r].statusCode = 200
        /\ resp[r].writes = 1

Terminal == {"emit", "bad_request", "aborted"}

\* C19: no timer leaks.  Whenever a request is in a terminal state (EMIT,
\* BAD_REQUEST or ABORTED), and whenever sleepWithCancellation has
\* returned, no timer of that call is still running: it has fired, or it
\* was stopped when shutdown cancelled the wait, or none was created
\* because the duration was zero or negative or the delay was invalid.
C19_NoTimerLeak ==
    \A r \in Calls :
        in[r].entry \in {"handleRoute", "sleepWithCancellation"} =>
            /\ (pc[r] \in Terminal \/ ret[r] # "none") => timer[r] # "active"
            /\ ret[r] = "completed" => timer[r] \in {"none", "fired"}
            /\ ret[r] = "cancelled" => timer[r] \in {"stopped", "fired"}
            /\ ~DurPositive(delay[r]) => timer[r] = "none"
            /\ pc[r] = "bad_request" => timer[r] = "none"

\* a request aborted by the shutdown, its timer stopped before it fired
C19_Witness ==
    \E r \in Calls :
        /\ IsRequest(r)
        /\ pc[r] = "aborted"
        /\ ret[r] = "cancelled"
        /\ timer[r] = "stopped"

\* the state of one call
CallState(r) ==
    <<pc[r], delay[r], timer[r], sel[r], loc[r], resp[r], ret[r], first[r], delayErr[r],
      served[r]>>

\* C20: each request's wait is independent.  In every state, whatever
\* calls are suspended in the sleeper, the next step of every other call is
\* free to happen: a request without a delay parameter can take each step
\* from START to EMIT, and a timer can fire and its call leave the sleeper
\* while a timer started earlier is still running.  Apart from the close of
\* shutdownChan a step changes the state of one call only, and never the
\* inputs of any.
C20_WaitsAreIndependent ==
    [][ /\ \A r \in Calls :
              /\ (pc[r] = "start" /\ DelayParam(r) = << >>) => ENABLED ParseDelay(r)
              /\ pc[r] = "sleep" => ENABLED SleepEnter(r)
              /\ pc[r] = "select" => ENABLED SelectPoll(r)
              /\ timer[r] = "active" => ENABLED TimerFire(r)
              /\ pc[r] \in {"selected", "woken"} => ENABLED SleepReturn(r)
              /\ pc[r] = "match" => ENABLED Match(r)
              /\ pc[r] = "compose" => ENABLED Compose(r)
              /\ pc[r] = "dump" => ENABLED Emit(r)
        /\ in' = in
        /\ shutdownChan' = shutdownChan =>
              \A r, q \in Calls :
                 (CallState(r)' # CallState(r) /\ CallState(q)' # CallState(q)) => r = q
      ]_vars

\* a request with delay=5ms has its response while a request with
\* delay=250 is still blocked in the select, its timer running
C20_Witness ==
    \E r, q \in Calls :
        /\ IsRequest(r) /\ IsRequest(q)
        /\ pc[q] = "parked"
        /\ timer[q] = "active"
        /\ delay[q] = [s |-> 0, ns |-> 250000000]
        /\ pc[r] = "emit"
        /\ delay[r] = [s |-> 0, ns |-> 5000000]
        /\ timer[r] = "fired"
        /\ resp[r].writes = 1

\* a step of a request or of a direct call of the sleeper
RequestStep ==
    \E r \in Calls :
        \/ ParseDelay(r) \/ SleepEnter(r) \/ SelectPoll(r) \/ TimerFire(r)
        \/ SleepReturn(r) \/ Match(r) \/ Compose(r) \/ Emit(r)

\* C21: the shutdown signal starts not signaled, is set at most once and
\* never resets.  shutdownChan is open in the initial state; it changes
\* only in the step of main that closes it, which main takes once (after
\* the close main is past it for good, whatever further OS signals
\* arrive); once closed it is closed in every later state; and every step
\* of a request or of a direct call leaves it as it is.
C21_ShutdownSetOnce ==
    /\ shutdownChan = "open"
    /\ [][ /\ shutdownChan = "closed" => shutdownChan' = "closed"
           /\ shutdownChan' # shutdownChan =>
                 mainPc = "closing" /\ mainPc' = "shutdown" /\ shutdownChan = "open"
           /\ shutdownChan' = "closed" => mainPc' = "shutdown"
           /\ mainPc = "shutdown" => mainPc' = "shutdown"
           /\ RequestStep => shutdownChan' = shutdownChan
         ]_vars

\* a second OS signal is pending after the close, while a request that the
\* close woke has not yet returned
C21_Witness ==
    /\ shutdownChan = "closed"
    /\ mainPc = "shutdown"
    /\ sigChan = 1
    /\ \E r \in Calls : IsRequest(r) /\ pc[r] = "woken" /\ sel[r] = "shutdown"

\* the methods a configuration may name
AllowedMethods ==
    { << "G", "E", "T" >>, << "P", "O", "S", "T" >>, << "P", "U", "T" >>,
      << "D", "E", "L", "E", "T", "E" >>, << "P", "A", "T", "C", "H" >>,
      << "H", "E", "A", "D" >>, << "O", "P", "T", "I", "O", "N", "S" >> }

WellFormedRoute(rt) == rt.Path # "" /\ (rt.Method = << >> \/ rt.Method \in AllowedMethods)

\* C23: every configuration LoadConfig returns without error has, on every
\* route, a non-empty path and a method that is empty or one of GET, POST,
\* PUT, DELETE, PATCH, HEAD, OPTIONS in upper case, and a non-empty address
\* (":12330" when the file gives none, the file's otherwise); it has the
\* routes of the file; and a file with a route that violates this yields an
\* error and no configuration.  An error and a configuration never come
\* together.
C23_LoadedConfigIsValid ==
    \A r \in Calls :
        (in[r].entry = "LoadConfig" /\ pc[r] = "returned") =>
            LET file == in[r].arg
                out == ret[r]
            IN  /\ out.err.isErr <=> out.config.isNil
                /\ ~out.err.isErr =>
                      /\ \A i \in 1..Len(out.config.Routes) : WellFormedRoute(out.config.Routes[i])
                      /\ out.config.Routes = file.config.Routes
                      /\ out.config.Address # ""
                      /\ out.config.Address =
                            (IF file.config.Address = "" THEN ":12330" ELSE file.config.Address)
                /\ (\E i \in 1..Len(file.config.Routes) : ~WellFormedRoute(file.config.Routes[i]))
                      => (out.err.isErr /\ out.config.isNil)

\* a file without an address and with two valid routes, the second after a
\* route without a method, has been loaded
C23_Witness ==
    \E r \in Calls :
        /\ in[r].entry = "LoadConfig"
        /\ pc[r] = "returned"
        /\ in[r].arg.config.Address = ""
        /\ Len(in[r].arg.config.Routes) = 2
        /\ in[r].arg.config.Routes[1].Method = << >>
        /\ in[r].arg.config.Routes[2].Method = << "P", "O", "S", "T" >>
        /\ ~ret[r].err.isErr
        /\ ret[r].config.Address = ":12330"

\* the method a route answers to
MethodOrGet(rt) == IF rt.Method = << >> THEN << "G", "E", "T" >> ELSE rt.Method

\* the route answers to the (path, method) of the request
Accepts(rt, rq) == rt.Path = rq.path /\ SameIgnoringCase(MethodOrGet(rt), rq.method)

IsHandled(r) == in[r].entry = "RequestHandler"

\* the configured routes that answer to the request of call r, by index
Accepting(r) ==
    { i \in 1..Len(in[r].arg.Routes) : Accepts(in[r].arg.Routes[i], in[r].request) }

FirstAccepting(r) == CHOOSE i \in Accepting(r) : \A j \in Accepting(r) : i <= j

\* C29: matchRoute is true exactly when the route's path equals the request
\* path and the route's method (GET when empty) equals the request method
\* ignoring case; RequestHandler serves the first route in declared order
\* for which it is true and no other, and answers 404 exactly when there is
\* none; the body emitted is that of the first such route.
C29_FirstRouteServed ==
    \A r \in Calls :
        IsHandled(r) =>
            /\ \A i \in 1..Len(in[r].arg.Routes) :
                  matchRoute(in[r].arg.Routes[i], in[r].request.path, in[r].request.method)
                     <=> i \in Accepting(r)
            /\ pc[r] = "handler" => served[r] = 0
            /\ pc[r] # "handler" =>
                  IF Accepting(r) = {}
                  THEN served[r] = 0 /\ pc[r] = "not_found"
                  ELSE served[r] = FirstAccepting(r) /\ pc[r] # "not_found"
            /\ pc[r] = "emit" =>
                  /\ resp[r].body = in[r].arg.Routes[FirstAccepting(r)].ResponseBody
                  /\ resp[r].statusCode = 200
                  /\ resp[r].writes = 1

\* two routes answer to GET /health, the first configured as "get" and the
\* second without a method; the response is the first route's
C29_Witness ==
    \E r \in Calls :
        /\ IsHandled(r)
        /\ pc[r] = "emit"
        /\ in[r].request.method = << "G", "E", "T" >>
        /\ Accepting(r) = {1, 2}
        /\ in[r].arg.Routes[1].Method = << "g", "e", "t" >>
        /\ in[r].arg.Routes[2].Method = << >>
        /\ in[r].arg.Routes[1].ResponseBody = << "one" >>
        /\ in[r].arg.Routes[2].ResponseBody = << "two" >>
        /\ served[r] = 1
        /\ resp[r].body = << "one" >>

\* the pairs a direct call of an extractor visits
VisitedPairs(r) ==
    IF in[r].entry = "extractHeaders" THEN in[r].request.header ELSE in[r].request.query

\* C25: the mapping extracted from the headers, and the one extracted from
\* the query parameters, of a request holds one value per name: every name
\* that occurs in the request is a key, every key is a name that occurs,
\* and the value under a name is the value of its last occurrence.
C25_LastValuePerName ==
    \A r \in Calls :
        (in[r].entry \in {"extractHeaders", "extractQueryParameters"} /\ pc[r] = "returned") =>
            LET ps == VisitedPairs(r)
                mp == ret[r]
            IN  /\ ~mp.isNil
                /\ \A i \in 1..Len(ps) :
                      /\ ps[i].key \in DOMAIN mp.m
                      /\ (\A j \in (i + 1)..Len(ps) : ps[j].key # ps[i].key) =>
                            mp.m[ps[i].key] = ps[i].value
                /\ \A k \in DOMAIN mp.m : \E i \in 1..Len(ps) : ps[i].key = k

\* the headers A: 1, X-K: 1, A: 2 were extracted: A has the value 2
C25_Witness ==
    \E r \in Calls :
        /\ in[r].entry = "extractHeaders"
        /\ pc[r] = "returned"
        /\ in[r].request.header =
              << Pair(NameA, << "1" >>), Pair(NameXK, << "1" >>), Pair(NameA, << "2" >>) >>
        /\ ret[r].m[NameA] = << "2" >>
        /\ ret[r].m[NameXK] = << "1" >>

\* C26: matching does not depend on the order in which Go visits the two
\* maps.  The result a call of MatchesHeaders returned is the result under
\* every order of the header_match entries and every order of the request
\* headers, also when the request mapping has names equal under case
\* folding with different values; and the loop over the conditions can
\* break at one index only (or at none).
C26_MatchingIgnoresMapOrder ==
    \A r \in Calls :
        (in[r].entry = "MatchesHeaders" /\ pc[r] = "returned") =>
            /\ \A eo \in Orders(Keys(in[r].route.Conditions[1].HeaderMatch)),
                  ao \in Orders(Keys(in[r].arg)) :
                  (ret[r] = "true")
                     = MatchesHeadersIn(in[r].route.Conditions[1], in[r].arg, eo, ao)
            /\ Cardinality(ConditionLoop(in[r].route.Conditions, in[r].arg, 1)) = 1

\* X-K=secret and x-k=secret are required of a request with X-K=Secret and
\* x-k=secret: true, whichever header is visited first
C26_Witness ==
    \E r \in Calls :
        /\ in[r].entry = "MatchesHeaders"
        /\ pc[r] = "returned"
        /\ Keys(in[r].arg) = {NameXK, NameXk}
        /\ in[r].arg.m[NameXK] = "Secret"
        /\ in[r].arg.m[NameXk] = "secret"
        /\ Keys(in[r].route.Conditions[1].HeaderMatch) = {NameXK, NameXk}
        /\ in[r].route.Conditions[1].HeaderMatch.m[NameXK] = "secret"
        /\ in[r].route.Conditions[1].HeaderMatch.m[NameXk] = "secret"
        /\ ret[r] = "true"

\* C27: requests share no mutable state.  No step changes the route table
\* or any other input of a call.  The outcome of a request is decided by
\* its own route, headers and query parameters and by its own race between
\* timer and shutdown: at EMIT the response is the one its inputs denote,
\* at ABORTED nothing was written and the shutdown signal is set, and two
\* requests with the same inputs that end in the same terminal state have
\* the same response, whatever else was handled before or meanwhile.
C27_NoSharedState ==
    /\ [](\A r \in Calls :
             IsRequest(r) =>
                /\ pc[r] = "emit" => resp[r] = ResponseTo(r, in[r].request.query)
                /\ pc[r] = "aborted" =>
                      /\ resp[r] = NewResponse
                      /\ shutdownChan = "closed"
                      /\ DurPositive(delay[r])
                /\ pc[r] = "bad_request" => resp[r].statusCode = 400 /\ resp[r].writes = 1
                /\ \A q \in Calls :
                      (in[q] = in[r] /\ pc[r] \in Terminal /\ pc[q] = pc[r]) => resp[q] = resp[r])
    /\ [][in' = in]_vars

\* two requests with the same inputs (delay=5ms): one was answered, the
\* other was aborted by the shutdown
C27_Witness ==
    \E r, q \in Calls :
        /\ r # q
        /\ IsRequest(r)
        /\ in[r] = in[q]
        /\ pc[r] = "emit"
        /\ pc[q] = "aborted"
        /\ resp[r].statusCode = 200
        /\ resp[q] = NewResponse

\* the digits without their leading zeros, "0" when nothing is left
RECURSIVE WithoutLeadingZeros(_)
WithoutLeadingZeros(s) ==
    IF s = << >> THEN << "0" >>
    ELSE IF Head(s) = "0" THEN WithoutLeadingZeros(Tail(s))
    ELSE s

\* C28: for every bare signed decimal integer n that parseDelayParam
\* accepts, the resolved duration is n milliseconds (its whole seconds are
\* n without its last three digits, the rest is those three digits in
\* milliseconds, with the sign of n): a positive n never resolves to a zero
\* or negative duration and a negative n never to a positive one.
C28_Original ==
    \A r \in Calls :
        ( /\ in[r].entry = "parseDelayParam"
          /\ pc[r] = "returned"
          /\ IsBareInteger(DelayParam(r))
          /\ ~delayErr[r].isErr )
        => LET n == Unsigned(DelayParam(r))
               k == Len(n)
               whole == IF k > 3 THEN SubSeq(n, 1, k - 3) ELSE << >>
               milli == IF k > 3 THEN SubSeq(n, k - 2, k) ELSE n
               sg == IF Negative(DelayParam(r)) THEN 0 - 1 ELSE 1
           IN  /\ sg * delay[r].s >= 0
               /\ sg * delay[r].ns >= 0
               /\ Itoa(sg * delay[r].s) = WithoutLeadingZeros(whole)
               /\ sg * delay[r].ns = Decimal(milli) * 1000000

\* a step of the call r past the parsing of its delay parameter
Advance(r) ==
    \/ SleepEnter(r) \/ SelectPoll(r) \/ TimerFire(r) \/ SleepReturn(r)
    \/ Match(r) \/ Compose(r) \/ Emit(r)

\* C30: every request ends in exactly one of the outcomes EMIT, BAD_REQUEST
\* and ABORTED, and its body is written at most once: once in EMIT and in
\* BAD_REQUEST, never in ABORTED.  A request that has not reached an
\* outcome has a step to take (one without a delay parameter at its start,
\* and every one past the parsing of its delay, a parked one by its
\* timer); its steps follow the order of handleRoute, which ends in the
\* three outcomes only; and an outcome once reached is kept, with the
\* response as it is.
C30_OneOutcome ==
    /\ [](\A r \in Calls :
             IsRequest(r) =>
                /\ resp[r].writes <= 1
                /\ pc[r] \in {"emit", "bad_request"} => resp[r].writes = 1
                /\ pc[r] = "aborted" => resp[r].writes = 0 /\ resp[r] = NewResponse
                /\ (pc[r] = "start" /\ DelayParam(r) = << >>) => ENABLED ParseDelay(r)
                /\ pc[r] \notin Terminal \cup {"start"} => ENABLED Advance(r))
    /\ [][ \A r \in Calls :
             IsRequest(r) =>
                /\ pc[r] \in Terminal => (pc'[r] = pc[r] /\ resp'[r] = resp[r])
                /\ pc'[r] # pc[r] => pc'[r] \in StepsAfter(pc[r])
                /\ resp'[r].writes >= resp[r].writes ]_vars

\* two requests have ended, one aborted without a body and one emitted
\* with its body written once
C30_Witness ==
    \E r, q \in Calls :
        /\ IsRequest(r) /\ IsRequest(q)
        /\ pc[r] = "aborted" /\ resp[r].writes = 0
        /\ pc[q] = "emit" /\ resp[q].writes = 1

\* C31: every request eventually reaches a terminal state, given that
\* every started timer eventually fires and that a goroutine able to run
\* does run; shutdown may or may not happen.  A request blocked in the
\* select of the sleeper leaves it, and it leaves it only woken by its timer
\* having fired or by shutdownChan having been closed.
C31_EveryRequestEnds ==
    /\ \A r \in 1..2 : <>(pc[r] \in Terminal)
    /\ \A r \in 1..2 : (pc[r] = "parked") ~> (pc[r] = "woken")
    /\ [][ \A r \in 1..2 :
             (pc[r] = "parked" /\ pc'[r] # "parked") =>
                /\ pc'[r] = "woken"
                /\ \/ sel'[r] = "timer" /\ timer'[r] = "fired"
                   \/ sel'[r] = "shutdown" /\ shutdownChan' = "closed" ]_vars

\* a request has waited out its delay in the select and has emitted its
\* response, and no shutdown has happened
C31_Witness ==
    \E r \in Calls :
        /\ IsRequest(r)
        /\ DurPositive(delay[r])
        /\ first[r] = "timer"
        /\ ret[r] = "completed"
        /\ pc[r] = "emit"
        /\ shutdownChan = "open"
        /\ mainPc = "wait_signal"

\* C32: a request that enters the sleeper with a positive delay when
\* shutdownChan is already closed starts its timer and reaches the select;
\* if the timer has not fired by then it does not block: the shutdown case
\* is taken, the sleeper returns cancelled and the request ends aborted
\* with nothing written.  A request without a positive delay does not
\* enter the sleeper and is never aborted: after the shutdown too it
\* emits the response of its chosen source.
C32_LateSleeperIsCancelled ==
    /\ [][ \A r \in Calls :
             IsRequest(r) =>
                /\ ( pc[r] = "sleep" /\ DurPositive(delay[r]) /\ shutdownChan = "closed"
                     /\ pc'[r] # pc[r] )
                   => (pc'[r] = "select" /\ timer'[r] = "active")
                /\ ( pc[r] = "select" /\ shutdownChan = "closed" /\ timer[r] = "active"
                     /\ pc'[r] # pc[r] )
                   => (pc'[r] = "selected" /\ sel'[r] = "shutdown")
                /\ ( pc[r] = "selected" /\ sel[r] = "shutdown" /\ pc'[r] # pc[r] )
                   => /\ pc'[r] = "aborted"
                      /\ ret'[r] = "cancelled"
                      /\ timer'[r] # "active"
                      /\ resp'[r] = NewResponse
                /\ ( pc[r] = "start" /\ pc'[r] # pc[r] /\ ~delayErr'[r].isErr
                     /\ ~DurPositive(delay'[r]) )
                   => pc'[r] = "match" ]_vars
    /\ [](\A r \in Calls :
             IsRequest(r) =>
                /\ pc[r] = "aborted" =>
                      (DurPositive(delay[r]) /\ resp[r] = NewResponse /\ resp[r].writes = 0)
                /\ ( pc[r] = "emit" /\ ~DurPositive(delay[r]) ) =>
                      /\ timer[r] = "none"
                      /\ EmittedFrom(r, ChosenSource(r))
                      /\ resp[r].writes = 1)

\* after the close of shutdownChan one request has found the shutdown case
\* ready in the select, its timer still running, and another one, whose
\* delay is not positive, has parsed its delay and emitted its response
C32_Witness ==
    \E r, q \in Calls :
        /\ IsRequest(r) /\ IsRequest(q)
        /\ pc[r] = "selected" /\ sel[r] = "shutdown" /\ timer[r] = "active"
        /\ first[r] = "shutdown"
        /\ first[q] = "none" /\ ~DurPositive(delay[q])
        /\ pc[q] = "emit" /\ resp[q].writes = 1
        /\ shutdownChan = "closed"

\* the emitted headers of a call other than Content-Type
OtherHeaders(r) == DOMAIN resp[r].header \ {ContentTypeKey}

\* both runs of the two-run specification have emitted
BothEmitted == \A r \in Calls : IsRequest(r) /\ pc[r] = "emit"

\* C33, as claimed: for the same route contents and the same request, the
\* run with the dump on and the run with it off emit the same status and
\* the same value for every header other than Content-Type, both taken
\* from the chosen source.
C33_Original ==
    BothEmitted =>
       /\ resp[1].statusCode = resp[2].statusCode
       /\ resp[1].statusCode = StatusOf(ChosenSource(1))
       /\ OtherHeaders(1) = OtherHeaders(2)
       /\ \A n \in OtherHeaders(1) :
             /\ resp[1].header[n] = resp[2].header[n]
             /\ resp[1].header[n] \in ConfiguredUnder(ChosenSource(1), n)

\* C33, amended: the two runs emit the same status, that of the chosen
\* source, and the same header names other than Content-Type, those of the
\* chosen source in canonical form; each run emits under a name a value
\* that the chosen source configures under it, so the two runs emit the
\* same value for every name that the source configures with one value;
\* for names that it configures several times in different cases, each
\* run emits one of the values.  With the dump on the Content-Type is
\* application/json.
C33_DumpKeepsStatusAndHeaders ==
    BothEmitted =>
       /\ resp[1].statusCode = resp[2].statusCode
       /\ resp[1].statusCode = StatusOf(ChosenSource(1))
       /\ ChosenSource(2) = [ChosenSource(1) EXCEPT !.ResponseDump = TRUE]
             \/ ChosenSource(2) = ChosenSource(1)
       /\ OtherHeaders(1) = OtherHeaders(2)
       /\ OtherHeaders(1) =
             { NormalizeHeaderKey(k) : k \in DOMAIN ChosenSource(1).ResponseHeader.m }
             \ {ContentTypeKey}
       /\ \A n \in OtherHeaders(1) :
             /\ resp[1].header[n] \in ConfiguredUnder(ChosenSource(1), n)
             /\ resp[2].header[n] \in ConfiguredUnder(ChosenSource(1), n)
             /\ Cardinality(ConfiguredUnder(ChosenSource(1), n)) = 1 =>
                   resp[1].header[n] = resp[2].header[n]
       /\ resp[2].header[ContentTypeKey] = "application/json"

\* both runs have answered from a matched condition with its status 201
\* and its header x-c: cond, the one with the condition's body as plain
\* text and the other with the dump as JSON
C33_Witness ==
    /\ BothEmitted
    /\ \A r \in Calls : loc[r].conditionMatched
    /\ resp[1].statusCode = 201 /\ resp[2].statusCode = 201
    /\ resp[1].header[NameXC] = "cond" /\ resp[2].header[NameXC] = "cond"
    /\ resp[1].header[ContentTypeKey] = "text/plain; charset=utf-8"
    /\ resp[2].header[ContentTypeKey] = "application/json"
    /\ resp[1].body = << "cond body" >>
    /\ resp[2].body # resp[1].body

TypeOK ==
    /\ shutdownChan \in {"open", "closed"}
    /\ sigChan \in 0..SigChanCap
    /\ mainPc \in {"wait_signal", "closing", "shutdown"}
    /\ \A r \in Calls :
         /\ pc[r] \in {"start", "sleep", "select", "parked", "woken", "match", "compose",
                       "selected", "dump", "emit", "bad_request", "aborted", "returned", "call",
                       "handler", "not_found"}
         /\ timer[r] \in {"none", "active", "fired", "stopped"}
         /\ sel[r] \in {"none", "timer", "shutdown"}
         /\ in[r].entry \notin {"LoadConfig", "extractHeaders", "extractQueryParameters"} =>
               ret[r] \in {"none", "completed", "cancelled", "true", "false"}
         /\ first[r] \in {"none", "timer", "shutdown"}
         /\ served[r] \in Nat

====
